---- MODULE Spec2Model ----
(***************************************************************************)
(* Verification model of the sf1r-lite ingestion core:                     *)
(*   - JobScheduler            (source/core/common/JobScheduler.cpp)       *)
(*   - RecommendTaskService    (bundles/recommend/RecommendTaskService.cpp)*)
(*   - IndexWorker             (same translation unit, from line 798 on)   *)
(* Each component has its own specification (SpecJob, SpecRecommend,       *)
(* SpecOrder, SpecDoc, SpecIndex) over one shared set of variables; the    *)
(* variables of the other components stay at their initial values.         *)
(***************************************************************************)
EXTENDS Integers, Sequences, FiniteSets, TLC

(***************************************************************************)
(* Bounds of the model                                                     *)
(***************************************************************************)
\* number of tasks ever handed to JobScheduler::addTask
MaxTasks == 3
\* number of order records in one order SCD file
MaxOrderRecords == 4
\* MAX_ORDER_NUM (RecommendTaskService.cpp:54) is 1000 in the program; the
\* model uses this scaled value so that the flush threshold is reachable
MAX_ORDER_NUM == 2
\* number of docids the IdManager issues
MaxIds == 2
\* number of properties besides DOCID in one SCD document
MaxProps == 2
\* number of build passes of the IndexWorker
MaxPasses == 2
\* number of DOCIDs in one delete SCD file
MaxDeleteList == 2
\* largest numdoc argument of buildCollection
MaxNumdoc == 1
\* number of failures the collaborators of a build pass answer with
MaxFaults == 1
\* number of order items in one purchaseItem request
MaxOrderItems == 2
\* number of purchaseItem requests
MaxSaves == 2
\* number of writes to the current directory of the index
MaxWrites == 3
\* docids of the source document manager walked by rebuildCollection
MaxSrcIds == 3

\* threshold of requireBackup_, in MB
threshold == 200

(***************************************************************************)
(* State                                                                   *)
(***************************************************************************)
\* ---- JobScheduler ----
VARIABLES
    asynchronousTasks_,   \* the concurrent FIFO of task ids
    taskKind,             \* task id -> "none" | "plain" | "throws" | "build"
    workerPc,             \* position of runAsynchronousTasks_
    curTask,              \* task being executed (0: none)
    interruptRequested,   \* boost::thread interruption flag of the worker
    closePc,              \* position of close(): "none" | "joining" | "returned"
    started,              \* history: task ids in the order they were started
    ended,                \* history: tasks that returned or were interrupted
    startedAfterClose     \* history: tasks started after close() was called

jobVars == <<asynchronousTasks_, taskKind, workerPc, curTask, interruptRequested,
             closePc, started, ended, startedAfterClose>>

\* ---- RecommendTaskService: buildCollection and cronJob_ ----
VARIABLES
    recBuildPc,           \* position of RecommendTaskService::buildCollection
    recBuildResult,       \* its last return value: "none" | "true" | "false"
    buildCollectionMutex_,\* owner: "free" | "build" | "cron"
    cronPc,               \* position of cronJob_: "idle" | "flush" | "freq"
    cronFiredInBuild,     \* history: the running cron tick fired during a build
    cronLog,              \* history: what the last tick that ran has done, in order
    cronLast,             \* history: outcome of the last matching tick
    recDirty,             \* current directory is marked dirty
    recHasNext,           \* next directory exists and its name differs
    recNextValid,         \* next is valid and its parentName is current's name
    recLastBackup,        \* history: what backupDataFiles did in the last build
    recLog                \* history: the failures of the last build, by level

recVars == <<recBuildPc, recBuildResult, buildCollectionMutex_, cronPc,
             cronFiredInBuild, cronLast, cronLog, recDirty, recHasNext, recNextValid,
             recLastBackup, recLog>>

\* ---- RecommendTaskService: parseOrderSCD_ ----
VARIABLES
    ordPc,                \* "parsing" | "done"
    orderMap,             \* OrderMap: (user, order-id) -> sequence of items
    ordParsed,            \* number of records parsed so far
    savedOrders,          \* history: arguments of every saveOrder_ call
    ordFlushes,           \* history: number of intermediate OrderMap flushes
    ordRecords            \* history: record -> times doc2Order parsed it

ordVars == <<ordPc, orderMap, ordParsed, savedOrders, ordFlushes, ordRecords>>

\* ---- RecommendTaskService: purchaseItem / saveOrder_ ----
VARIABLES
    orderStore,           \* OrderManager: the item-id vectors addOrder recorded
    purchaseStore,        \* PurchaseManager: user -> purchased item-ids
    queryPurchaseCounter_,\* query -> item-id -> clicks
    saveCalls,            \* number of purchaseItem requests so far
    lastSave              \* history: what the last saveOrder_ call did

purVars == <<orderStore, purchaseStore, queryPurchaseCounter_, saveCalls, lastSave>>

\* ---- RecommendTaskService: visitItem ----
VARIABLES
    visitStore,           \* VisitManager: the (session, user, item-id) visits recorded
    recVisitStore,        \* VisitManager: the (user, item-id) recommended-item visits
    lastVisit             \* history: what the last visitItem call did

visVars == <<visitStore, recVisitStore, lastVisit>>

\* ---- IndexWorker: IdManager, DocumentManager, IndexManager ----
VARIABLES
    idMap,                \* IdManager: DOCID hash -> docid (0: unknown)
    idLast,               \* IdManager: last docid issued
    docs,                 \* DocumentManager: docid -> stored document
    delfilter,            \* DocumentManager: docids marked deleted
    maxDocId,             \* DocumentManager::getMaxDocId
    indexDocs,            \* IndexManager: docids present in the index
    scdProps,             \* the property names the SCD records of this run use
    lastOp,               \* history: the last document operation and its outcome
    logCreatedDoc_,       \* bundleConfig_->logCreatedDoc_: mirror writes to the log server
    lastLog               \* history: the log-server submission of the last operation

storeVars == <<idMap, idLast, docs, delfilter, maxDocId, indexDocs>>
logVars == <<logCreatedDoc_, lastLog>>
docVars == <<storeVars, scdProps, lastOp, logVars>>

\* ---- IndexWorker: buildCollection (one build pass) ----
VARIABLES
    scdDir,               \* bundle files in the live bundle path
    backupDir,            \* bundle files in its backup/ directory
    scdLog,               \* append-log of the current directory (appendSCD)
    fileDocs,             \* file name -> the SCD records written into it
    idxPc,                \* position of IndexWorker::buildCollection
    idxResult,            \* "none" | "running" | "true" | "false" | "interrupted"
    numdoc,               \* argument of buildCollection
    scdList,              \* local: the sorted list of scanned files
    fileIdx,              \* local: position of scd_it in scdList
    docPos,               \* local: position of doc_iter in the current file
    docIdList,            \* local of deleteSCD_: sorted docids still to delete
    currTotalSCDSize,     \* local, in MB
    totalSCDSizeSinceLastBackup_,
    numUpdatedDocs_,      \* documents updated since the last pass that ran to its end
    passes,               \* number of passes started
    cancelRequested,      \* interruption requested for the thread of the pass
    idxDirty,             \* current directory is marked dirty
    mergePaused,          \* indexManager_: merging is paused (pauseMerge without resumeMerge)
    idxHasNext,           \* next directory exists and its name differs
    faults,               \* number of failures the collaborators answered with
    scanned,              \* history: the files the last scan found
    dispatchCount,        \* history: file -> times the dispatch loop took it
    passDispatch,         \* history: the same, within the last pass
    dispatchedAfterMove,  \* history: files dispatched while in backup/
    renameFailed,         \* history: files whose rename failed in the last pass
    dirAtReturn,          \* history: the live bundle path when the pass returned
    removeLog,            \* history: docids removed by the last delete file
    dispatchLog,          \* history: the files of the pass in dispatch order
    applyLog,             \* history: (file, position) of the documents applied
    bytesSinceBackup,     \* history: bytes of the bundles of the successful passes since the last backup
    idxBackup,            \* history: the backup of the pass: "none" | "copied" | "failed"
    skipLog,              \* history: (file, position) of the documents skipped
    abandoned,            \* history: the files of the pass given up as unreadable
    sinceCancel           \* history: documents written since cancellation was requested

fsVars == <<scdDir, backupDir, scdLog>>
ctlVars == <<idxPc, idxResult, dirAtReturn>>
localVars == <<numdoc, scdList, fileIdx, docPos, docIdList, currTotalSCDSize>>
envVars == <<fileDocs, passes, idxDirty, idxHasNext, mergePaused>>
passHist == <<scanned, dispatchCount, passDispatch, dispatchedAfterMove,
              renameFailed, removeLog>>
orderHist == <<dispatchLog, applyLog, idxBackup, bytesSinceBackup, skipLog, abandoned, sinceCancel>>
idxVars == <<fsVars, ctlVars, localVars, envVars, passHist, orderHist, cancelRequested,
             faults, totalSCDSizeSinceLastBackup_, numUpdatedDocs_>>

\* ---- IndexWorker: rebuildCollection ----
VARIABLES
    srcDocs,              \* the source DocumentManager: docid -> DOCID of the document ("": none)
    srcDel,               \* its delete filter
    rebPc,                \* position of rebuildCollection: "idle" | "walk" | "done" | "threw" | "interrupted"
    curDocId,             \* its loop variable
    rebInterrupt,         \* an interruption of the calling thread is pending
    rebFlushed,           \* the managers flushed at the end of the walk
    rebBase,              \* history: the last docid the id manager had issued when the walk began
    rebLog                \* history: <<source docid, new docid>> of the documents inserted

rebVars == <<srcDocs, srcDel, rebPc, curDocId, rebInterrupt, rebFlushed, rebBase, rebLog>>

\* ---- IndexWorker: the directory pair, optimizeIndex, reindex ----
VARIABLES
    curData,              \* generation of the data in the current directory
    nextData,             \* generation next is a valid copy of (-1: of none)
    dirGuard,             \* a DirectoryGuard on current is held
    optPc,                \* position of optimizeIndex: "idle" | "guard" | "optimize"
    optResult,            \* its last return value: "none" | "true" | "false"
    lastBackup,           \* history: what the last backup_ call did
    redundantCopy,        \* history: a copy was made of data next already held
    unguardedMutation     \* history: a store or directory changed with no guard held

dirVars == <<curData, nextData, dirGuard, optPc, optResult, lastBackup,
             redundantCopy, unguardedMutation>>

(***************************************************************************)
(* JobScheduler                                                            *)
(***************************************************************************)
TaskIds == 1..MaxTasks
TaskKinds == {"plain", "throws", "build"}

JobInit ==
    /\ asynchronousTasks_ = <<>>
    /\ taskKind = [t \in TaskIds |-> "none"]
    /\ workerPc = "pop"
    /\ curTask = 0
    /\ interruptRequested = FALSE
    /\ closePc = "none"
    /\ started = <<>>
    /\ ended = {}
    /\ startedAfterClose = {}

NumAdded == Cardinality({t \in TaskIds : taskKind[t] # "none"})

\* a LIFO queue: what concurrent_queue::pop would do if it took the newest task
queuePopNewest(q) == [value |-> q[Len(q)], rest |-> SubSeq(q, 1, Len(q) - 1)]

\* concurrent_queue::pop on a non-empty queue: the oldest task
queuePop(q) == [value |-> Head(q), rest |-> Tail(q)]

\* JobScheduler::addTask: push to the back of the queue
addTask(kind) ==
    /\ NumAdded < MaxTasks
    /\ kind \in {"plain", "throws"}
    /\ LET t == NumAdded + 1 IN
         /\ taskKind' = [taskKind EXCEPT ![t] = kind]
         /\ asynchronousTasks_' = Append(asynchronousTasks_, t)
    /\ UNCHANGED <<workerPc, curTask, interruptRequested, closePc, started, ended,
                   startedAfterClose>>

\* IndexWorker::index: binds buildCollection into a task and enqueues it
index ==
    /\ NumAdded < MaxTasks
    /\ LET t == NumAdded + 1 IN
         /\ taskKind' = [taskKind EXCEPT ![t] = "build"]
         /\ asynchronousTasks_' = Append(asynchronousTasks_, t)
    /\ UNCHANGED <<workerPc, curTask, interruptRequested, closePc, started, ended,
                   startedAfterClose>>

\* line 36, queue not empty: pop returns at once, it never waits and so never
\* reaches the condition wait that is the interruption point
WorkerPop ==
    /\ workerPc = "pop"
    /\ asynchronousTasks_ # <<>>
    /\ LET p == queuePop(asynchronousTasks_) IN
         /\ curTask' = p.value
         /\ asynchronousTasks_' = p.rest
         /\ started' = Append(started, p.value)
         /\ startedAfterClose' = IF closePc # "none"
                                 THEN startedAfterClose \cup {p.value}
                                 ELSE startedAfterClose
    /\ workerPc' = "task"
    /\ UNCHANGED <<taskKind, interruptRequested, closePc, ended>>

\* line 36, queue empty: the worker waits; an interruption wakes it with
\* thread_interrupted, caught at line 43
WorkerPopInterrupted ==
    /\ workerPc = "pop"
    /\ asynchronousTasks_ = <<>>
    /\ interruptRequested
    /\ workerPc' = "exited"
    /\ UNCHANGED <<asynchronousTasks_, taskKind, curTask, interruptRequested, closePc,
                   started, ended, startedAfterClose>>

\* line 37: the task runs to completion and returns
TaskReturn ==
    /\ workerPc = "task"
    /\ taskKind[curTask] \in {"plain", "build"}
    /\ ended' = ended \cup {curTask}
    /\ curTask' = 0
    /\ workerPc' = "point"
    /\ UNCHANGED <<asynchronousTasks_, taskKind, interruptRequested, closePc, started,
                   startedAfterClose>>

\* line 37: the task throws; the only handler (line 43) is for
\* thread_interrupted, so the exception leaves the thread function
TaskThrow ==
    /\ workerPc = "task"
    /\ taskKind[curTask] = "throws"
    /\ workerPc' = "terminated"
    /\ UNCHANGED <<asynchronousTasks_, taskKind, curTask, interruptRequested, closePc,
                   started, ended, startedAfterClose>>

\* line 37: a build pass reaches one of its interruption points while an
\* interruption is pending; thread_interrupted unwinds to line 43
TaskInterrupted ==
    /\ workerPc = "task"
    /\ taskKind[curTask] = "build"
    /\ interruptRequested
    /\ ended' = ended \cup {curTask}
    /\ curTask' = 0
    /\ workerPc' = "exited"
    /\ UNCHANGED <<asynchronousTasks_, taskKind, interruptRequested, closePc, started,
                   startedAfterClose>>

\* line 40: boost::this_thread::interruption_point()
InterruptionPoint ==
    /\ workerPc = "point"
    /\ workerPc' = IF interruptRequested THEN "exited" ELSE "pop"
    /\ UNCHANGED <<asynchronousTasks_, taskKind, curTask, interruptRequested, closePc,
                   started, ended, startedAfterClose>>

\* close(), line 20: interrupt the worker
close ==
    /\ closePc = "none"
    /\ workerPc # "terminated"
    /\ interruptRequested' = TRUE
    /\ closePc' = "joining"
    /\ UNCHANGED <<asynchronousTasks_, taskKind, workerPc, curTask, started, ended,
                   startedAfterClose>>

\* close(), line 21: join returns once the worker thread has exited
closeJoin ==
    /\ closePc = "joining"
    /\ workerPc = "exited"
    /\ closePc' = "returned"
    /\ UNCHANGED <<asynchronousTasks_, taskKind, workerPc, curTask, interruptRequested,
                   started, ended, startedAfterClose>>

\* the steps of the worker thread (runAsynchronousTasks_, lines 29-47)
WorkerStep ==
    \/ WorkerPop
    \/ WorkerPopInterrupted
    \/ TaskReturn
    \/ TaskThrow
    \/ TaskInterrupted
    \/ InterruptionPoint

JobNext ==
    \/ \E k \in TaskKinds : addTask(k)
    \/ index
    \/ WorkerPop
    \/ WorkerPopInterrupted
    \/ TaskReturn
    \/ TaskThrow
    \/ TaskInterrupted
    \/ InterruptionPoint
    \/ close
    \/ closeJoin

(***************************************************************************)
(* RecommendTaskService: buildCollection against cronJob_                  *)
(***************************************************************************)
RecInit ==
    /\ recBuildPc = "idle"
    /\ recBuildResult = "none"
    /\ buildCollectionMutex_ = "free"
    /\ cronPc = "idle"
    /\ cronFiredInBuild = FALSE
    /\ cronLast = "none"
    /\ cronLog = <<>>
    /\ recDirty = FALSE
    /\ recHasNext \in BOOLEAN
    /\ recNextValid = FALSE
    /\ recLastBackup = "none"
    /\ recLog = [passFailure |-> FALSE, itemFailure |-> FALSE]

\* the test of lines 131-133 without its third conjunct
needCopyAlways == recHasNext

\* backupDataFiles, lines 131-133: the copy is needed
needCopy == recHasNext /\ ~recNextValid

\* buildCollection is entered (line 396)
RecBuildEnter ==
    /\ recBuildPc = "idle"
    /\ recBuildPc' = "backup"
    /\ recBuildResult' = "none"
    /\ recLastBackup' = "none"
    /\ recLog' = [passFailure |-> FALSE, itemFailure |-> FALSE]
    /\ UNCHANGED <<buildCollectionMutex_, cronPc, cronFiredInBuild, cronLast, cronLog, recDirty,
                   recHasNext, recNextValid>>

\* lines 401-405: backupDataFiles; copyOk is the outcome of next->copyFrom
RecBackupDataFiles(copyOk) ==
    /\ recBuildPc = "backup"
    /\ IF needCopy
       THEN IF copyOk
            THEN /\ recNextValid' = TRUE
                 /\ recLastBackup' = "copied"
                 /\ recBuildPc' = "guard"
                 /\ UNCHANGED recBuildResult
            ELSE /\ recBuildPc' = "idle"
                 /\ recBuildResult' = "false"
                 /\ recLastBackup' = "failed"
                 /\ UNCHANGED recNextValid
       ELSE /\ copyOk
            /\ recBuildPc' = "guard"
            /\ recLastBackup' = "skipped"
            /\ UNCHANGED <<recBuildResult, recNextValid>>
    /\ recLog' = [recLog EXCEPT !.passFailure = @ \/ (needCopy /\ ~copyOk)]
    /\ UNCHANGED <<buildCollectionMutex_, cronPc, cronFiredInBuild, cronLast, cronLog, recDirty,
                   recHasNext>>

\* lines 407-412: DirectoryGuard on the current directory
RecGuard ==
    /\ recBuildPc = "guard"
    /\ IF recDirty
       THEN recBuildPc' = "idle" /\ recBuildResult' = "false"
       ELSE recBuildPc' = "lock" /\ UNCHANGED recBuildResult
    /\ recLog' = [recLog EXCEPT !.passFailure = @ \/ recDirty]
    /\ UNCHANGED <<buildCollectionMutex_, cronPc, cronFiredInBuild, cronLast, cronLog, recDirty,
                   recHasNext, recNextValid, recLastBackup>>

\* line 414: boost::mutex::scoped_lock, blocking
RecLock ==
    /\ recBuildPc = "lock"
    /\ buildCollectionMutex_ = "free"
    /\ buildCollectionMutex_' = "build"
    /\ recBuildPc' = "user"
    /\ UNCHANGED <<recBuildResult, cronPc, cronFiredInBuild, cronLast, cronLog, recDirty,
                   recHasNext, recNextValid, recLastBackup, recLog>>

\* loadUserSCD_ and loadOrderSCD_ answering false for a file or record that failed
loadResultStrict(scanOk, itemsOk) == scanOk /\ itemsOk

\* the return value of loadUserSCD_ (lines 431-447) and of loadOrderSCD_
\* (lines 529-552): false only when scanSCDFiles fails; the values of
\* parseUserSCD_ and parseOrderSCD_ (lines 440, 538) are dropped
loadResult(scanOk, itemsOk) == scanOk

\* line 416, loadUserSCD_ (lines 426-448); scanOk is the outcome of
\* scanSCDFiles, itemsOk tells that every file loaded and every record of it
\* was converted and stored
RecLoadUserSCD(scanOk, itemsOk) ==
    /\ recBuildPc = "user"
    /\ scanOk \/ itemsOk                    \* after a failed scan nothing is parsed
    /\ IF loadResult(scanOk, itemsOk)
       THEN /\ recBuildPc' = "order"
            /\ UNCHANGED <<recBuildResult, buildCollectionMutex_>>
       ELSE /\ recBuildPc' = "idle"
            /\ recBuildResult' = "false"
            /\ buildCollectionMutex_' = "free"
    /\ recLog' = [passFailure |-> recLog.passFailure \/ ~scanOk,
                  itemFailure |-> recLog.itemFailure \/ ~itemsOk]
    /\ UNCHANGED <<cronPc, cronFiredInBuild, cronLast, cronLog, recDirty, recHasNext,
                   recNextValid, recLastBackup>>

\* line 416, loadOrderSCD_ (lines 524-553), then return and unlock
RecLoadOrderSCD(scanOk, itemsOk) ==
    /\ recBuildPc = "order"
    /\ scanOk \/ itemsOk
    /\ recBuildPc' = "idle"
    /\ recBuildResult' = IF loadResult(scanOk, itemsOk) THEN "true" ELSE "false"
    /\ buildCollectionMutex_' = "free"
    /\ recLog' = [passFailure |-> recLog.passFailure \/ ~scanOk,
                  itemFailure |-> recLog.itemFailure \/ ~itemsOk]
    /\ UNCHANGED <<cronPc, cronFiredInBuild, cronLast, cronLog, recDirty, recHasNext,
                   recNextValid, recLastBackup>>

\* cronJob_, lines 756-764: a tick that matches the cron expression
cronJob_ ==
    /\ cronPc = "idle"
    /\ IF buildCollectionMutex_ = "free"
       THEN /\ buildCollectionMutex_' = "cron"
            /\ cronPc' = "flush"
            /\ cronFiredInBuild' = (recBuildPc # "idle")
            /\ cronLast' = "ran"
            /\ cronLog' = <<>>
       ELSE /\ cronLast' = "skipped"
            /\ UNCHANGED <<buildCollectionMutex_, cronPc, cronFiredInBuild, cronLog>>
    /\ UNCHANGED <<recBuildPc, recBuildResult, recDirty, recHasNext, recNextValid, recLastBackup, recLog>>

\* flush_ that builds the similarity matrix whatever the collaborator says
flushAlwaysBuild_(stale) ==
    <<"flush", IF stale THEN "stale" ELSE "notStale", "buildPurchaseSimMatrix",
      "flushRecommendMatrix">>

\* flush_, lines 772-794: the flush of every sub-store (lines 776-784), the
\* answer of needRebuildPurchaseSimMatrix (line 787), buildPurchaseSimMatrix
\* under it (line 789) and flushRecommendMatrix (line 791)
flush_(stale) ==
    <<"flush", IF stale THEN "stale" ELSE "notStale">>
    \o (IF stale THEN <<"buildPurchaseSimMatrix">> ELSE <<>>)
    \o <<"flushRecommendMatrix">>

\* line 766: flush_(); stale is the answer of needRebuildPurchaseSimMatrix
cronFlush(stale) ==
    /\ cronPc = "flush"
    /\ cronPc' = "freq"
    /\ cronLog' = cronLog \o flush_(stale)
    /\ UNCHANGED <<recBuildPc, recBuildResult, buildCollectionMutex_, cronFiredInBuild,
                   cronLast, recDirty, recHasNext, recNextValid, recLastBackup, recLog>>

\* line 768: buildFreqItemSet_() (lines 742-752, nothing when the frequent
\* item sets are not enabled), then the scoped_try_lock is released
cronBuildFreqItemSet(freqItemSetEnable_) ==
    /\ cronPc = "freq"
    /\ cronPc' = "idle"
    /\ cronLog' = IF freqItemSetEnable_ THEN Append(cronLog, "buildFreqItemsets")
                  ELSE cronLog
    /\ cronFiredInBuild' = FALSE
    /\ buildCollectionMutex_' = "free"
    /\ UNCHANGED <<recBuildPc, recBuildResult, cronLast, recDirty, recHasNext,
                   recNextValid, recLastBackup, recLog>>

\* a failed write elsewhere leaves the current directory marked dirty
RecMarkDirty ==
    /\ ~recDirty
    /\ recBuildPc = "idle"
    /\ recDirty' = TRUE
    /\ UNCHANGED <<recBuildPc, recBuildResult, buildCollectionMutex_, cronPc,
                   cronFiredInBuild, cronLast, cronLog, recHasNext, recNextValid, recLastBackup, recLog>>

RecNext ==
    \/ RecBuildEnter
    \/ \E ok \in BOOLEAN : RecBackupDataFiles(ok)
    \/ RecGuard
    \/ RecLock
    \/ \E scanOk \in BOOLEAN, itemsOk \in BOOLEAN : RecLoadUserSCD(scanOk, itemsOk)
    \/ \E scanOk \in BOOLEAN, itemsOk \in BOOLEAN : RecLoadOrderSCD(scanOk, itemsOk)
    \/ cronJob_
    \/ \E stale \in BOOLEAN : cronFlush(stale)
    \/ \E enable \in BOOLEAN : cronBuildFreqItemSet(enable)
    \/ RecMarkDirty

(***************************************************************************)
(* RecommendTaskService: parseOrderSCD_ / loadOrderItem_ / saveOrderMap_   *)
(***************************************************************************)
Users == {"u1", "u2"}
OrderIds == {"", "o1", "o2"}
Items == {"i1", "i2"}
OrderKeys == Users \X (OrderIds \ {""})
\* an order record as doc2Order returns it: user, order-id, item
OrderRecords == Users \X OrderIds \X Items

OrdInit ==
    /\ ordPc = "parsing"
    /\ orderMap = [k \in {} |-> <<>>]
    /\ ordParsed = 0
    /\ savedOrders = <<>>
    /\ ordFlushes = 0
    /\ ordRecords = [r \in OrderRecords |-> 0]

\* saveOrder_ (lines 658-687) as seen by its caller: one order handed over
saveOrder_(log, user, oid, items) ==
    Append(log, [user |-> user, order |-> oid, items |-> items])

\* std::string order of the model's strings
StrRank(s) == CHOOSE i \in 1..7 :
                  <<"", "i1", "i2", "o1", "o2", "u1", "u2">>[i] = s

\* std::map iteration order over OrderKey (a pair compares lexicographically),
\* as a sequence of keys
RECURSIVE KeySeq(_)
KeySeq(S) ==
    IF S = {} THEN <<>>
    ELSE LET k == CHOOSE x \in S :
                    \A y \in S : \/ StrRank(x[1]) < StrRank(y[1])
                                 \/ (x[1] = y[1] /\ StrRank(x[2]) <= StrRank(y[2]))
         IN <<k>> \o KeySeq(S \ {k})

RECURSIVE saveOrderMapFrom(_, _, _)
saveOrderMapFrom(log, map, keys) ==
    IF keys = <<>> THEN log
    ELSE saveOrderMapFrom(saveOrder_(log, Head(keys)[1], Head(keys)[2], map[Head(keys)]),
                          map, Tail(keys))

\* saveOrderMap_ that stops after the first order of the map
saveOrderMapFirstOnly(log, map) ==
    IF DOMAIN map = {} THEN log
    ELSE saveOrderMapFrom(log, map, <<Head(KeySeq(DOMAIN map))>>)

\* saveOrderMap_, lines 650-656
saveOrderMap_(log, map) == saveOrderMapFrom(log, map, KeySeq(DOMAIN map))

\* line 639 with the comparison off by one
orderMapFullLate(map) == Cardinality(DOMAIN map) > MAX_ORDER_NUM

\* line 639: orderMap.size() >= MAX_ORDER_NUM
orderMapFull(map) == Cardinality(DOMAIN map) >= MAX_ORDER_NUM

\* loadOrderItem_, lines 614-648, called from parseOrderSCD_ line 597
loadOrderItem_(user, oid, item) ==
    /\ ordPc = "parsing"
    /\ ordParsed < MaxOrderRecords
    /\ ordParsed' = ordParsed + 1
    /\ ordRecords' = [ordRecords EXCEPT ![<<user, oid, item>>] = @ + 1]
    /\ IF oid = ""
       THEN /\ savedOrders' = saveOrder_(savedOrders, user, oid, <<item>>)
            /\ UNCHANGED <<orderMap, ordFlushes>>
       ELSE LET key == <<user, oid>> IN
            IF key \in DOMAIN orderMap
            THEN /\ orderMap' = [orderMap EXCEPT ![key] = Append(@, item)]
                 /\ UNCHANGED <<savedOrders, ordFlushes>>
            ELSE IF orderMapFull(orderMap)
                 THEN /\ savedOrders' = saveOrderMap_(savedOrders, orderMap)
                      /\ orderMap' = [k \in {key} |-> <<item>>]
                      /\ ordFlushes' = ordFlushes + 1
                 ELSE /\ orderMap' = [k \in DOMAIN orderMap \cup {key} |->
                                        IF k = key THEN <<item>> ELSE orderMap[k]]
                      /\ UNCHANGED <<savedOrders, ordFlushes>>
    /\ UNCHANGED ordPc

\* parseOrderSCD_, line 603: end of file, the remaining map is saved
parseOrderSCDEnd ==
    /\ ordPc = "parsing"
    /\ savedOrders' = saveOrderMap_(savedOrders, orderMap)
    /\ ordPc' = "done"
    /\ UNCHANGED <<orderMap, ordParsed, ordFlushes, ordRecords>>

\* parseOrderSCD_, lines 591-595: doc2Order rejects the record, which is skipped
parseOrderSkip ==
    /\ ordPc = "parsing"
    /\ ordParsed < MaxOrderRecords
    /\ ordParsed' = ordParsed + 1
    /\ UNCHANGED <<ordPc, orderMap, savedOrders, ordFlushes, ordRecords>>

\* parseOrderSCD_, line 600: the interruption point after a record; on
\* thread_interrupted the local OrderMap is destroyed with the stack frame
parseOrderInterrupted ==
    /\ ordPc = "parsing"
    /\ ordRecords # [r \in OrderRecords |-> 0]
    /\ ordPc' = "interrupted"
    /\ orderMap' = [k \in {} |-> <<>>]
    /\ UNCHANGED <<ordParsed, savedOrders, ordFlushes, ordRecords>>

OrdNext ==
    \/ \E u \in Users, o \in OrderIds, i \in Items : loadOrderItem_(u, o, i)
    \/ parseOrderSkip
    \/ parseOrderInterrupted
    \/ parseOrderSCDEnd

(***************************************************************************)
(* RecommendTaskService: purchaseItem and saveOrder_ with its three stores *)
(***************************************************************************)
\* item strings of a request; "bad" is one the item-id generator rejects
ItemIdStrs == Items \cup {"bad"}
ItemIds == {1, 2}
Queries == {"", "q"}

\* OrderItem: the fields saveOrder_ reads
OrderItems == [itemIdStr_ : ItemIdStrs, query_ : Queries]
OrderItemVecs == UNION {[1..n -> OrderItems] : n \in 0..MaxOrderItems}

\* what the query-purchase counter store answers for one order item
CounterAnswers == {"ok", "getFails", "updateFails"}

NoSave == [called |-> FALSE, unknownItem |-> FALSE, attempted |-> {}, saved |-> FALSE]

PurInit ==
    /\ orderStore = <<>>
    /\ purchaseStore = [u \in Users |-> {}]
    /\ queryPurchaseCounter_ = [q \in Queries \ {""} |-> [i \in ItemIds |-> 0]]
    /\ saveCalls = 0
    /\ lastSave = NoSave

\* ItemIdGenerator::strIdToItemId
strIdToItemId(str) ==
    CASE str = "i1" -> [ok |-> TRUE, itemId |-> 1]
      [] str = "i2" -> [ok |-> TRUE, itemId |-> 2]
      [] OTHER -> [ok |-> FALSE, itemId |-> 0]

\* convertOrderItemVec_ that leaves out the items it cannot resolve
RECURSIVE convertOrderItemVecSkipping(_)
convertOrderItemVecSkipping(vec) ==
    IF vec = <<>> THEN [ok |-> TRUE, itemIdVec |-> <<>>]
    ELSE LET r == strIdToItemId(Head(vec).itemIdStr_)
             rest == convertOrderItemVecSkipping(Tail(vec))
         IN [ok |-> TRUE,
             itemIdVec |-> (IF r.ok THEN <<r.itemId>> ELSE <<>>) \o rest.itemIdVec]

\* convertOrderItemVec_, lines 722-740
RECURSIVE convertOrderItemVec_(_)
convertOrderItemVec_(vec) ==
    IF vec = <<>> THEN [ok |-> TRUE, itemIdVec |-> <<>>]
    ELSE LET r == strIdToItemId(Head(vec).itemIdStr_) IN
         IF ~r.ok THEN [ok |-> FALSE, itemIdVec |-> <<>>]
         ELSE LET rest == convertOrderItemVec_(Tail(vec)) IN
              [ok |-> rest.ok,
               itemIdVec |-> IF rest.ok THEN <<r.itemId>> \o rest.itemIdVec ELSE <<>>]

\* insertPurchaseCounter_, lines 689-720: the loop from item i on
RECURSIVE insertPurchaseCounterFrom(_, _, _, _, _, _)
insertPurchaseCounterFrom(counter, vec, ids, answers, i, result) ==
    IF i > Len(vec) THEN [result |-> result, counter |-> counter]
    ELSE LET query == vec[i].query_ IN
         IF query = ""
         THEN insertPurchaseCounterFrom(counter, vec, ids, answers, i + 1, result)
         ELSE IF answers[i] = "getFails"
         THEN insertPurchaseCounterFrom(counter, vec, ids, answers, i + 1, FALSE)
         ELSE IF answers[i] = "updateFails"
         THEN insertPurchaseCounterFrom(counter, vec, ids, answers, i + 1, FALSE)
         ELSE insertPurchaseCounterFrom(
                  [counter EXCEPT ![query][ids[i]] = @ + 1],
                  vec, ids, answers, i + 1, result)

insertPurchaseCounter_(counter, vec, ids, answers) ==
    insertPurchaseCounterFrom(counter, vec, ids, answers, 1, TRUE)

\* PurchaseManager::addPurchaseItem; ok is the answer of the store
addPurchaseItem(store, user, ids, ok) ==
    IF ok THEN [store EXCEPT ![user] = @ \cup {ids[i] : i \in 1..Len(ids)}]
    ELSE store

\* purchaseItem (lines 350-357), which is saveOrder_ (lines 658-687)
purchaseItem(user, vec, pmOk, answers) ==
    /\ saveCalls < MaxSaves
    /\ saveCalls' = saveCalls + 1
    /\ LET unknown == \E i \in 1..Len(vec) : ~strIdToItemId(vec[i].itemIdStr_).ok
           cv == convertOrderItemVec_(vec)
       IN
       IF vec = <<>>                                           \* lines 665-669
       THEN /\ lastSave' = [called |-> TRUE, unknownItem |-> FALSE,
                            attempted |-> {}, saved |-> FALSE]
            /\ UNCHANGED <<orderStore, purchaseStore, queryPurchaseCounter_>>
       ELSE IF ~cv.ok                                          \* lines 671-673
       THEN /\ lastSave' = [called |-> TRUE, unknownItem |-> unknown,
                            attempted |-> {}, saved |-> FALSE]
            /\ UNCHANGED <<orderStore, purchaseStore, queryPurchaseCounter_>>
       ELSE /\ orderStore' = Append(orderStore, cv.itemIdVec)  \* line 675
            /\ purchaseStore' = addPurchaseItem(purchaseStore, user, cv.itemIdVec, pmOk)
            /\ IF pmOk                                         \* lines 677-678
               THEN LET c == insertPurchaseCounter_(queryPurchaseCounter_, vec,
                                                    cv.itemIdVec, answers)
                    IN
                    /\ queryPurchaseCounter_' = c.counter
                    /\ lastSave' = [called |-> TRUE, unknownItem |-> unknown,
                                    attempted |-> {"order", "purchase", "counter"},
                                    saved |-> c.result]
               ELSE /\ UNCHANGED queryPurchaseCounter_
                    /\ lastSave' = [called |-> TRUE, unknownItem |-> unknown,
                                    attempted |-> {"order", "purchase"},
                                    saved |-> FALSE]

PurNext ==
    \E u \in Users, vec \in OrderItemVecs, pmOk \in BOOLEAN,
       answers \in [1..MaxOrderItems -> CounterAnswers] :
        purchaseItem(u, vec, pmOk, answers)

(***************************************************************************)
(* IndexWorker: documents, schema and the three stores                     *)
(***************************************************************************)
\* DOCID values of the model; "Z" is never inserted by a bundle file
Hashes == {"A", "B"}
Values == {"x", "y"}
DocIds == 1..MaxIds

\* bundleConfig_->indexSchema_: the flags checkRtype_ reads (lines 2616-2628)
Schema(p) ==
    CASE p = "DOCID" -> [isIndex |-> TRUE,  isFilter |-> FALSE, isAnalyzed |-> FALSE]
      [] p = "title" -> [isIndex |-> TRUE,  isFilter |-> FALSE, isAnalyzed |-> TRUE]
      [] p = "tag"   -> [isIndex |-> TRUE,  isFilter |-> FALSE, isAnalyzed |-> FALSE]
      [] p = "price" -> [isIndex |-> TRUE,  isFilter |-> TRUE,  isAnalyzed |-> FALSE]
      [] p = "memo"  -> [isIndex |-> FALSE, isFilter |-> FALSE, isAnalyzed |-> FALSE]

PropNames == {"title", "tag", "price", "memo"}
SchemaNames == PropNames \cup {"DOCID"}

\* position of a property in an SCD record of the model
PropRank(p) == CHOOSE i \in 1..4 : <<"title", "tag", "price", "memo">>[i] = p

\* the property lines of an SCD record after its <DOCID> line
FieldSeqs ==
    {f \in UNION {[1..n -> scdProps \X Values] : n \in 0..MaxProps} :
        \A i \in 1..(Len(f) - 1) : PropRank(f[i][1]) < PropRank(f[i + 1][1])}

\* SCDDoc: a sequence of (property name, value) pairs; the record delimiter
\* <DOCID> makes DOCID the first pair
SCDDocs == {<<<<"DOCID", h>>>> \o f : h \in Hashes, f \in FieldSeqs}

EmptyProps == [p \in {} |-> ""]
NoDoc == [id |-> 0, DOCID |-> "", props |-> EmptyProps]

\* the three stores as one value, for the operators below
Store == [idMap |-> idMap, idLast |-> idLast, docs |-> docs, del |-> delfilter,
          maxDocId |-> maxDocId, index |-> indexDocs]

SetStore(s) ==
    /\ idMap' = s.idMap
    /\ idLast' = s.idLast
    /\ docs' = s.docs
    /\ delfilter' = s.del
    /\ maxDocId' = s.maxDocId
    /\ indexDocs' = s.index

NoOp == [op |-> "none", rType |-> FALSE, ok |-> FALSE]

\* the SCD records of one run use "price" and one other property of the schema
\* no submission was made
NoLog == [sent |-> FALSE, failed |-> FALSE, threw |-> FALSE]

PropChoices == {{"price", p} : p \in PropNames \ {"price"}}

DocInit ==
    /\ idMap = [h \in Hashes \cup {"Z"} |-> 0]
    /\ idLast = 0
    /\ docs = [d \in DocIds |-> NoDoc]
    /\ delfilter = {}
    /\ maxDocId = 0
    /\ indexDocs = {}
    /\ scdProps \in PropChoices
    /\ lastOp = NoOp
    /\ logCreatedDoc_ \in BOOLEAN
    /\ lastLog = NoLog

\* ---- IdManager (contract of spec section 3) ----
\* getDocIdByDocName(hash, docId, false): resolve only
idResolve(s, h) == [found |-> s.idMap[h] # 0, docId |-> s.idMap[h]]

\* getDocIdByDocName(hash, docId): resolve, or assign a new docid
idAssign(s, h) ==
    IF s.idMap[h] # 0
    THEN [found |-> TRUE, docId |-> s.idMap[h], s |-> s]
    ELSE [found |-> FALSE, docId |-> s.idLast + 1,
          s |-> [s EXCEPT !.idMap[h] = s.idLast + 1, !.idLast = s.idLast + 1]]

\* updateDocIdByDocName(hash, oldId, newId): a known hash gets a new docid
idUpdate(s, h) ==
    IF s.idMap[h] # 0
    THEN [ok |-> TRUE, oldId |-> s.idMap[h], newId |-> s.idLast + 1,
          s |-> [s EXCEPT !.idMap[h] = s.idLast + 1, !.idLast = s.idLast + 1]]
    ELSE [ok |-> FALSE, oldId |-> 0, newId |-> 0, s |-> s]

\* ---- DocumentManager (contract of spec section 6) ----
dmStored(s, d) == d \in DocIds /\ s.docs[d] # NoDoc
dmIsDeleted(s, d) == d \in s.del
dmLive(s, d) == dmStored(s, d) /\ ~dmIsDeleted(s, d)
dmGetMaxDocId(s) == s.maxDocId
dmHasProperty(s, d, p) == dmStored(s, d) /\ p \in DOMAIN s.docs[d].props

\* insertDocument; accept is the store's verdict on the write
dmInsert(s, doc, accept) ==
    IF accept /\ doc.id \in DocIds
    THEN [ok |-> TRUE,
          s |-> [s EXCEPT !.docs[doc.id] = doc,
                          !.maxDocId = IF doc.id > s.maxDocId THEN doc.id
                                       ELSE s.maxDocId]]
    ELSE [ok |-> FALSE, s |-> s]

\* removeDocument: marks a stored, not yet deleted docid as deleted
dmRemove(s, d) ==
    IF dmLive(s, d)
    THEN [ok |-> TRUE, s |-> [s EXCEPT !.del = s.del \cup {d}]]
    ELSE [ok |-> FALSE, s |-> s]

\* Document::copyPropertiesFromDocument: the properties of doc laid over old
overlay(old, new) ==
    [p \in DOMAIN old \cup DOMAIN new |-> IF p \in DOMAIN new THEN new[p] ELSE old[p]]

\* updatePartialDocument: rewrites the given properties of a stored document
dmUpdatePartial(s, doc, accept) ==
    IF accept /\ dmStored(s, doc.id)
    THEN [ok |-> TRUE,
          s |-> [s EXCEPT !.docs[doc.id].props = overlay(@, doc.props)]]
    ELSE [ok |-> FALSE, s |-> s]

\* ---- IndexWorker helpers ----
\* line 2616 without the filter flag
isRtypePropertyNoFilter(p) ==
    Schema(p).isIndex /\ ~Schema(p).isAnalyzed

\* line 2616: iter->isIndex() && iter->getIsFilter() && !iter->isAnalyzed()
isRtypeProperty(p) ==
    Schema(p).isIndex /\ Schema(p).isFilter /\ ~Schema(p).isAnalyzed

\* checkRtype_, lines 2573-2629: the loop from position i; docId is the docid
\* resolved so far, isUpdate and fields the out-parameters
RECURSIVE checkRtypeFrom(_, _, _, _, _, _)
checkRtypeFrom(s, doc, i, docId, isUpdate, fields) ==
    LET broke == [rType |-> FALSE, isUpdate |-> isUpdate, fields |-> EmptyProps]
    IN
    IF i > Len(doc)
    THEN [rType |-> TRUE, isUpdate |-> isUpdate, fields |-> fields]
    ELSE LET name == doc[i][1]
             value == doc[i][2]
         IN
         IF name \notin SchemaNames THEN broke
         ELSE IF name = "DOCID"
         THEN IF idResolve(s, value).found
              THEN checkRtypeFrom(s, doc, i + 1, idResolve(s, value).docId,
                                  isUpdate, fields)
              ELSE broke
         ELSE IF ~dmHasProperty(s, docId, name) THEN broke
         ELSE IF value = s.docs[docId].props[name]
         THEN checkRtypeFrom(s, doc, i + 1, docId, isUpdate, fields)
         ELSE IF isRtypeProperty(name)
         THEN checkRtypeFrom(s, doc, i + 1, docId, TRUE,
                             [p \in DOMAIN fields \cup {name} |->
                                 IF p = name THEN value ELSE fields[p]])
         ELSE IF ~Schema(name).isIndex
         THEN checkRtypeFrom(s, doc, i + 1, docId, TRUE, fields)
         ELSE broke

\* checkRtype_, lines 2561-2642
\* checkRtype_ that reports a change whatever the values are
checkRtypeAlwaysUpdate_(s, doc) ==
    [checkRtypeFrom(s, doc, 1, 0, FALSE, EmptyProps) EXCEPT !.isUpdate = TRUE]

\* checkRtype_, lines 2561-2642
checkRtype_(s, doc) == checkRtypeFrom(s, doc, 1, 0, FALSE, EmptyProps)

\* createUpdateDocId_ with the rType branch lost: a new docid in every case
createUpdateDocIdAlwaysNew(s, h, rType) ==
    LET u == idUpdate(s, h) IN
    [ok |-> u.ok, oldId |-> u.oldId, newId |-> u.newId, s |-> u.s]

\* createUpdateDocId_ that answers true for a DOCID without a docid and
\* gives it a new one
createUpdateDocIdOrAssign(s, h, rType) ==
    IF rType
    THEN LET r == idResolve(s, h) IN
         [ok |-> r.found, oldId |-> r.docId,
          newId |-> IF r.found THEN r.docId ELSE 0, s |-> s]
    ELSE [ok |-> TRUE, oldId |-> s.idMap[h], newId |-> s.idLast + 1,
          s |-> [s EXCEPT !.idMap[h] = s.idLast + 1, !.idLast = s.idLast + 1]]

\* createUpdateDocId_, lines 1729-1750
createUpdateDocId_(s, h, rType) ==
    IF rType
    THEN LET r == idResolve(s, h) IN
         [ok |-> r.found, oldId |-> r.docId,
          newId |-> IF r.found THEN r.docId ELSE 0, s |-> s]
    ELSE LET u == idUpdate(s, h) IN
         [ok |-> u.ok, oldId |-> u.oldId, newId |-> u.newId, s |-> u.s]

\* createInsertDocId_ without the rejection of a docid that is still live
createInsertDocIdNoDupCheck(s, h) ==
    LET a == idAssign(s, h) IN
    IF a.found
    THEN LET u == idUpdate(a.s, h) IN
         [ok |-> u.ok /\ u.newId > dmGetMaxDocId(u.s), newId |-> u.newId, s |-> u.s]
    ELSE [ok |-> a.docId > dmGetMaxDocId(a.s), newId |-> a.docId, s |-> a.s]

\* createInsertDocId_, lines 1752-1786
createInsertDocId_(s, h) ==
    LET a == idAssign(s, h) IN
    IF a.found
    THEN IF dmIsDeleted(a.s, a.docId)
         THEN LET u == idUpdate(a.s, h) IN
              IF ~u.ok THEN [ok |-> FALSE, newId |-> 0, s |-> u.s]
              ELSE [ok |-> u.newId > dmGetMaxDocId(u.s), newId |-> u.newId, s |-> u.s]
         ELSE [ok |-> FALSE, newId |-> 0, s |-> a.s]
    ELSE [ok |-> a.docId > dmGetMaxDocId(a.s), newId |-> a.docId, s |-> a.s]

\* the properties prepareDocument_ copies into the Document (lines 2075-2116)
docProps(doc) ==
    [p \in {doc[i][1] : i \in 2..Len(doc)} \cap PropNames |->
        LET i == CHOOSE j \in 2..Len(doc) : doc[j][1] = p IN doc[i][2]]

\* completePartialDocument_, lines 1560-1574
completePartialDocument_(s, oldId, document) ==
    IF ~dmStored(s, oldId)
    THEN [ok |-> FALSE, document |-> document]
    ELSE [ok |-> TRUE,
          document |-> [id |-> document.id, DOCID |-> document.DOCID,
                        props |-> overlay(s.docs[oldId].props, document.props)]]

\* prepareDocument_, lines 1995-2133, for a record that starts with DOCID
prepareDocument_(s, doc, insertArg) ==
    LET h == doc[1][2]
        rt == IF insertArg THEN [rType |-> FALSE, isUpdate |-> FALSE, fields |-> EmptyProps]
              ELSE checkRtype_(s, doc)
        failed(st) == [ok |-> FALSE, document |-> NoDoc, oldId |-> 0, rType |-> rt.rType,
                       fields |-> rt.fields, s |-> st]
    IN
    IF ~insertArg /\ rt.rType /\ ~rt.isUpdate
    THEN failed(s)                                           \* lines 2046-2050
    ELSE LET u == IF insertArg THEN [ok |-> FALSE, oldId |-> 0, newId |-> 0, s |-> s]
                  ELSE createUpdateDocId_(s, h, rt.rType)     \* line 2052
             insert == insertArg \/ ~u.ok                     \* line 2053
             c == IF insert THEN createInsertDocId_(u.s, h)   \* line 2056
                  ELSE [ok |-> TRUE, newId |-> u.newId, s |-> u.s]
             document == [id |-> c.newId, DOCID |-> h, props |-> docProps(doc)]
         IN
         IF ~c.ok THEN failed(c.s)
         ELSE IF ~insert /\ ~rt.rType                         \* line 2127
         THEN LET cp == completePartialDocument_(c.s, u.oldId, document) IN
              IF ~cp.ok THEN failed(c.s)
              ELSE [ok |-> TRUE, document |-> cp.document, oldId |-> u.oldId,
                    rType |-> rt.rType, fields |-> rt.fields, s |-> c.s]
         ELSE [ok |-> TRUE, document |-> document, oldId |-> u.oldId,
               rType |-> rt.rType, fields |-> rt.fields, s |-> c.s]

\* insertDoc_, lines 1870-1894
insertDoc_(s, document, hookOk, accept) ==
    IF ~hookOk THEN [ok |-> FALSE, s |-> s]
    ELSE LET r == dmInsert(s, document, accept) IN
         IF r.ok
         THEN [ok |-> TRUE, s |-> [r.s EXCEPT !.index = @ \cup {document.id}]]
         ELSE [ok |-> FALSE, s |-> r.s]

\* updateDoc_, lines 1896-1941; oldId is indexDocument.getId() (line 2179)
updateDoc_(s, document, oldId, rType, hookOk, accept) ==
    IF ~hookOk THEN [ok |-> FALSE, s |-> s]
    ELSE IF rType
    THEN IF ~dmStored(s, document.id) THEN [ok |-> FALSE, s |-> s]   \* line 1912
         ELSE LET r == dmUpdatePartial(s, document, accept) IN
              [ok |-> r.ok, s |-> r.s]               \* updateRtypeDocument keeps the docid
    ELSE LET rm == dmRemove(s, oldId)
             r == dmInsert(rm.s, document, accept)
         IN
         IF ~r.ok THEN [ok |-> FALSE, s |-> r.s]
         ELSE [ok |-> TRUE,
               s |-> [r.s EXCEPT !.index = (@ \ {oldId}) \cup {document.id}]]

\* deleteDoc_, lines 1943-1959
deleteDoc_(s, docid, hookOk) ==
    IF ~hookOk THEN [ok |-> FALSE, s |-> s]
    ELSE LET r == dmRemove(s, docid) IN
         IF r.ok THEN [ok |-> TRUE, s |-> [r.s EXCEPT !.index = @ \ {docid}]]
         ELSE [ok |-> FALSE, s |-> r.s]

\* ---- the driver API of IndexWorker, one document at a time ----
\* the submission to the log server at the end of createDocument and
\* updateDocument (lines 1349-1357): asynRequest and flushRequests inside
\* logCreatedDocToLogServer (lines 1398-1399), whose exception the caller
\* catches; logOk tells that the submission went through
logCreatedDocToLogServer(logOk) ==
    IF logCreatedDoc_
    THEN [sent |-> TRUE, failed |-> ~logOk, threw |-> FALSE]
    ELSE NoLog

\* the submission at the end of destroyDocument (lines 1506-1520): asynRequest
\* and flushRequests are called outside of any try block, so their exception
\* leaves destroyDocument
logDeleteToLogServer(logOk) ==
    IF logCreatedDoc_
    THEN [sent |-> TRUE, failed |-> ~logOk, threw |-> ~logOk]
    ELSE NoLog

\* createDocument, lines 1309-1360
createDocument(doc, hookOk, accept, logOk) ==
    LET p == prepareDocument_(Store, doc, TRUE) IN
    /\ p.s.idLast <= MaxIds
    /\ UNCHANGED <<scdProps, logCreatedDoc_>>
    /\ IF idxDirty                                          \* lines 1311-1316
       THEN /\ lastOp' = [op |-> "insert", rType |-> FALSE, ok |-> FALSE]
            /\ logOk /\ lastLog' = NoLog
            /\ UNCHANGED storeVars
       ELSE IF ~p.ok
       THEN /\ SetStore(p.s)
            /\ logOk /\ lastLog' = NoLog
            /\ lastOp' = [op |-> "insert", rType |-> FALSE, ok |-> FALSE]
       ELSE LET r == insertDoc_(p.s, p.document, hookOk, accept) IN
            /\ SetStore(r.s)
            /\ logOk \/ logCreatedDoc_
            /\ lastLog' = logCreatedDocToLogServer(logOk)
            /\ lastOp' = [op |-> "insert", rType |-> FALSE, ok |-> r.ok]

\* updateDocument, lines 1425-1478
updateDocument(doc, hookOk, accept, logOk) ==
    LET p == prepareDocument_(Store, doc, FALSE) IN
    /\ p.s.idLast <= MaxIds
    /\ UNCHANGED <<scdProps, logCreatedDoc_>>
    /\ IF idxDirty                                          \* lines 1427-1432
       THEN /\ lastOp' = [op |-> "update", rType |-> FALSE, ok |-> FALSE]
            /\ logOk /\ lastLog' = NoLog
            /\ UNCHANGED storeVars
       ELSE IF ~p.ok
       THEN /\ SetStore(p.s)
            /\ logOk /\ lastLog' = NoLog
            /\ lastOp' = [op |-> "update", rType |-> p.rType, ok |-> FALSE]
       ELSE LET r == updateDoc_(p.s, p.document, p.oldId, p.rType, hookOk, accept) IN
            /\ SetStore(r.s)
            /\ logOk \/ logCreatedDoc_
            /\ lastLog' = logCreatedDocToLogServer(logOk)
            /\ lastOp' = [op |-> "update", rType |-> p.rType, ok |-> r.ok]

\* destroyDocument, lines 1480-1523
destroyDocument(h, hookOk, logOk) ==
    LET f == idResolve(Store, h) IN
    /\ UNCHANGED <<scdProps, logCreatedDoc_>>
    /\ IF idxDirty \/ ~f.found                             \* lines 1482-1494
       THEN /\ lastOp' = [op |-> "delete", rType |-> FALSE, ok |-> FALSE]
            /\ logOk /\ lastLog' = NoLog
            /\ UNCHANGED storeVars
       ELSE LET r == deleteDoc_(Store, f.docId, hookOk) IN
            /\ SetStore(r.s)
            /\ logOk \/ logCreatedDoc_
            /\ lastLog' = logDeleteToLogServer(logOk)
            /\ lastOp' = [op |-> "delete", rType |-> FALSE, ok |-> r.ok]

\* what the hook and the document store answer to one write: both accept, the
\* hook rejects, or the hook accepts and the store rejects
Outcomes == {<<TRUE, TRUE>>, <<FALSE, TRUE>>, <<TRUE, FALSE>>}

DocNext ==
    \/ \E d \in SCDDocs, o \in Outcomes, logOk \in BOOLEAN :
          createDocument(d, o[1], o[2], logOk)
    \/ \E d \in SCDDocs, o \in Outcomes, logOk \in BOOLEAN :
          updateDocument(d, o[1], o[2], logOk)
    \/ \E h \in Hashes \cup {"Z"}, hookOk \in BOOLEAN, logOk \in BOOLEAN :
          destroyDocument(h, hookOk, logOk)

(***************************************************************************)
(* RecommendTaskService: visitItem                                         *)
(***************************************************************************)
SessionIds == {"", "s1"}

NoVisit == [called |-> FALSE, session |-> "", isRecItem |-> FALSE,
            attempted |-> {}, failed |-> {}, result |-> FALSE]

VisInit ==
    /\ visitStore = {}
    /\ recVisitStore = {}
    /\ lastVisit = NoVisit

\* the rec-visit counter is updated for every visit
needRecVisitAlways(isRecItem) == TRUE

\* line 340: the rec-visit counter is updated for a recommended item
needRecVisit(isRecItem) == isRecItem

\* visitItem, lines 320-348; visitOk and recOk are the answers of
\* VisitManager::addVisitItem and VisitManager::visitRecommendItem
visitItem(session, user, itemStr, isRecItem, visitOk, recOk) ==
    LET r == strIdToItemId(itemStr)
        done(att, bad, res) ==
            lastVisit' = [called |-> TRUE, session |-> session,
                          isRecItem |-> isRecItem, attempted |-> att,
                          failed |-> bad, result |-> res]
    IN
    IF session = "" \/ ~r.ok                         \* lines 327-331, 334
    THEN /\ visitOk /\ recOk
         /\ done({}, {}, FALSE)
         /\ UNCHANGED <<visitStore, recVisitStore>>
    ELSE IF ~visitOk                                 \* lines 335-338
    THEN /\ recOk
         /\ done({"visit"}, {"visit"}, FALSE)
         /\ UNCHANGED <<visitStore, recVisitStore>>
    ELSE /\ visitStore' = visitStore \cup {<<session, user, r.itemId>>}
         /\ IF needRecVisit(isRecItem)               \* lines 340-345
            THEN IF recOk
                 THEN /\ recVisitStore' = recVisitStore \cup {<<user, r.itemId>>}
                      /\ done({"visit", "rec"}, {}, TRUE)
                 ELSE /\ done({"visit", "rec"}, {"rec"}, FALSE)
                      /\ UNCHANGED recVisitStore
            ELSE /\ recOk
                 /\ done({"visit"}, {}, TRUE)
                 /\ UNCHANGED recVisitStore

VisNext ==
    \E session \in SessionIds, user \in Users, itemStr \in ItemIdStrs,
       isRecItem \in BOOLEAN, visitOk \in BOOLEAN, recOk \in BOOLEAN :
        visitItem(session, user, itemStr, isRecItem, visitOk, recOk)

(***************************************************************************)
(* IndexWorker: buildCollection, one build pass over the bundle files      *)
(***************************************************************************)
\* the bundle files of the model, B-NN-YYYYMMDDhhmm-ssuuu-T-C.SCD
FileI == "B-00-201101010000-00000-I-C.SCD"
FileU == "B-00-201101020000-00000-U-C.SCD"
FileD == "B-00-201101030000-00000-D-C.SCD"
SCDFileNames == {FileI, FileU, FileD}

\* ScdParser::checkSCDType: the type letter of the file name
checkSCDType(f) ==
    CASE f = FileI -> "INSERT_SCD"
      [] f = FileU -> "UPDATE_SCD"
      [] f = FileD -> "DELETE_SCD"

\* ScdParser::compareSCD orders by the name; rank of a name in that order
FileRank(f) == CHOOSE i \in 1..3 : <<FileI, FileU, FileD>>[i] = f

\* the scanned files in the reverse of the canonical order
sortSCDDescending(S) ==
    CHOOSE s \in [1..Cardinality(S) -> S] :
        \A i, j \in 1..Cardinality(S) : i < j => FileRank(s[i]) > FileRank(s[j])

\* sort(scdList.begin(), scdList.end(), ScdParser::compareSCD), line 1007
sortSCD(S) ==
    CHOOSE s \in [1..Cardinality(S) -> S] :
        \A i, j \in 1..Cardinality(S) : i < j => FileRank(s[i]) < FileRank(s[j])

\* parser.getFileSize() in bytes: 199.5 MiB, 150 MiB and 1.5 MiB
FileSize(f) ==
    CASE f = FileI -> 209190912
      [] f = FileU -> 157286400
      [] f = FileD -> 1572864

RECURSIVE SumFileSize(_)
SumFileSize(S) ==
    IF S = {} THEN 0
    ELSE LET f == CHOOSE x \in S : TRUE IN FileSize(f) + SumFileSize(S \ {f})

\* getTotalScdSize_, lines 2692-2714
getTotalScdSize_(dir) == SumFileSize(dir) \div (1024 * 1024)

\* what a producer writes into a bundle file
FullDoc(h) == <<<<"DOCID", h>>, <<"price", "x">>, <<"title", "x">>>>
InsertContents == {<<FullDoc("A")>>, <<FullDoc("A"), FullDoc("B")>>}
UpdateContents == {<<<<<<"DOCID", "A">>, <<"price", "y">>>>>>,
                   <<<<<<"DOCID", "A">>, <<"title", "y">>>>,
                     <<<<"DOCID", "A">>, <<"price", "y">>>>>>}
DeleteLists ==
    {l \in UNION {[1..n -> Hashes \cup {"Z"}] : n \in 1..MaxDeleteList} :
        /\ \A i, j \in 1..Len(l) : i # j => l[i] # l[j]
        /\ Len(l) = 1 => l[1] # "B"
        /\ Len(l) > 1 => \A i \in 1..Len(l) : l[i] # "Z"}
DeleteContents == {[i \in 1..Len(l) |-> <<<<"DOCID", l[i]>>>>] : l \in DeleteLists}

Contents(f) ==
    CASE f = FileI -> InsertContents
      [] f = FileU -> UpdateContents
      [] f = FileD -> DeleteContents

\* a first start: no bundle file has been written or absorbed yet
FsEmpty ==
    /\ scdDir = {}
    /\ backupDir = {}
    /\ scdLog = {}
    /\ fileDocs = [f \in SCDFileNames |-> <<>>]

\* a start over the directories of an earlier run, after a rotation of the
\* directory pair: backup/ holds the files the earlier passes renamed into
\* it (line 1137), and the append-log of the directory that is current now
\* lists those of them that were absorbed when it was copied (line 1138)
FsAfterRotation ==
    /\ scdDir = {}
    /\ backupDir \in SUBSET SCDFileNames
    /\ scdLog \in SUBSET backupDir
    /\ fileDocs = [f \in SCDFileNames |->
                      IF f \in backupDir
                      THEN CASE f = FileI -> <<FullDoc("A")>>
                             [] f = FileU -> <<<<<<"DOCID", "A">>, <<"price", "y">>>>>>
                             [] f = FileD -> <<<<<<"DOCID", "A">>>>>>
                      ELSE <<>>]

IdxInitCore ==
    /\ idxPc = "idle"
    /\ idxResult = "none"
    /\ numdoc = 0
    /\ scdList = <<>>
    /\ fileIdx = 0
    /\ docPos = 0
    /\ docIdList = <<>>
    /\ currTotalSCDSize = 0
    /\ totalSCDSizeSinceLastBackup_ = 0
    /\ numUpdatedDocs_ = 0
    /\ passes = 0
    /\ cancelRequested = FALSE
    /\ idxDirty = FALSE
    /\ idxHasNext \in BOOLEAN
    /\ mergePaused = FALSE
    /\ faults = 0
    /\ scanned = {}
    /\ dispatchCount = [f \in SCDFileNames |-> 0]
    /\ passDispatch = [f \in SCDFileNames |-> 0]
    /\ dispatchedAfterMove = {}
    /\ renameFailed = {}
    /\ dirAtReturn = {}
    /\ removeLog = <<>>
    /\ dispatchLog = <<>>
    /\ applyLog = <<>>
    /\ idxBackup = "none"
    /\ bytesSinceBackup = 0
    /\ skipLog = <<>>
    /\ abandoned = {}
    /\ sinceCancel = 0

IdxInit == FsEmpty /\ IdxInitCore

\* ---- the environment of a pass ----
\* a producer drops a bundle file into the live bundle path; the name carries
\* the time of writing, so files come in the order of their names
FileArrives(f, content) ==
    /\ \A g \in SCDFileNames : FileRank(g) >= FileRank(f) => fileDocs[g] = <<>>
    /\ fileDocs' = [fileDocs EXCEPT ![f] = content]
    /\ scdDir' = scdDir \cup {f}
    /\ UNCHANGED <<backupDir, scdLog, ctlVars, localVars, passes, idxDirty,
                   idxHasNext, mergePaused, passHist, orderHist, cancelRequested, faults,
                   totalSCDSizeSinceLastBackup_, numUpdatedDocs_, storeVars>>

\* JobScheduler::close() interrupts the thread the pass runs on (line 20)
RequestCancel ==
    /\ ~cancelRequested
    /\ idxPc # "stopped"
    /\ cancelRequested' = TRUE
    /\ sinceCancel' = 0
    /\ UNCHANGED <<fsVars, ctlVars, localVars, envVars, passHist, dispatchLog, applyLog,
                   idxBackup, bytesSinceBackup, skipLog, abandoned, faults,
                   totalSCDSizeSinceLastBackup_, numUpdatedDocs_, storeVars>>

\* the current directory gets marked dirty
IdxMarkDirty ==
    /\ ~idxDirty
    /\ idxPc = "idle"
    /\ idxDirty' = TRUE
    /\ UNCHANGED <<fsVars, ctlVars, localVars, fileDocs, passes, idxHasNext, mergePaused,
                   passHist, orderHist, cancelRequested, faults,
                   totalSCDSizeSinceLastBackup_, numUpdatedDocs_, storeVars>>

\* ---- helpers ----
\* a collaborator answers ok, or with one of the failures of the run
Answer(ok) ==
    /\ ok \/ faults < MaxFaults
    /\ faults' = IF ok THEN faults ELSE faults + 1

\* recoverSCD_ taking the files of backup/ that the append-log lists
recoverSCDListed(bk, log) ==
    IF ~idxHasNext \/ log = {} THEN {}
    ELSE {f \in bk : f \in log}

\* the files recoverSCD_ renames back into the bundle path: those of backup/
\* that the append-log does not list (lines 2769-2828)
recoverSCD_(bk, log) ==
    IF ~idxHasNext \/ log = {} THEN {}
    ELSE {f \in bk : f \notin log}

\* the live bundle path after a rename that left the source file in place
renameKeepsSource(dir, f) == dir

\* the live bundle path after bfs::rename(f, backup/f), line 1137
renameToBackup(dir, f) == dir \ {f}

\* the dispatch loop gives up the rest of the pass at its position i
abandonPass(i) == Len(scdList) + 1

\* scd_it++ of the dispatch loop, line 1030
nextFile(i) == i + 1

\* the loop of lines 1802-1818 with the unknown DOCIDs kept as docid 0
RECURSIVE resolveDocIdsKeepUnknown(_, _)
resolveDocIdsKeepUnknown(s, content) ==
    IF content = <<>> THEN <<>>
    ELSE <<idResolve(s, Head(content)[1][2]).docId>>
             \o resolveDocIdsKeepUnknown(s, Tail(content))

\* the docids of the DOCID list that resolve (deleteSCD_, lines 1802-1818)
RECURSIVE resolveDocIds(_, _)
resolveDocIds(s, content) ==
    IF content = <<>> THEN <<>>
    ELSE LET r == idResolve(s, Head(content)[1][2]) IN
         (IF r.found THEN <<r.docId>> ELSE <<>>) \o resolveDocIds(s, Tail(content))

RECURSIVE insertSorted(_, _)
insertSorted(x, seq) ==
    IF seq = <<>> THEN <<x>>
    ELSE IF x <= Head(seq) THEN <<x>> \o seq
    ELSE <<Head(seq)>> \o insertSorted(x, Tail(seq))

RECURSIVE sortAscending(_)
sortAscending(seq) ==
    IF seq = <<>> THEN <<>> ELSE insertSorted(Head(seq), sortAscending(Tail(seq)))

\* the docid list of deleteSCD_ left in the order of the file
docIdListUnsorted(seq) == seq

\* std::sort(docIdList.begin(), docIdList.end()), line 1819
docIdListSorted(seq) == sortAscending(seq)

\* the locals of buildCollection go out of scope
DropLocals ==
    /\ numdoc' = 0
    /\ scdList' = <<>>
    /\ fileIdx' = 0
    /\ docPos' = 0
    /\ docIdList' = <<>>
    /\ currTotalSCDSize' = 0

\* return from buildCollection with the given result
Return(res) ==
    /\ idxPc' = "idle"
    /\ idxResult' = res
    /\ dirAtReturn' = scdDir
    /\ DropLocals

\* boost::thread_interrupted leaves buildCollection: catch (std::exception&)
\* of line 1120 does not catch it, and the thread of the pass ends
Interrupted ==
    /\ idxPc' = "stopped"
    /\ idxResult' = "interrupted"
    /\ dirAtReturn' = scdDir
    /\ cancelRequested' = FALSE
    /\ DropLocals

\* ---- IndexWorker::buildCollection, lines 916-1178 ----
\* lines 918-923: getTotalScdSize_ and recoverSCD_
\* lost: the files whose bfs::rename in recoverSCD_ failed (lines 2815-2822)
BuildStart(n, lost) ==
    /\ idxPc = "idle"
    /\ passes < MaxPasses
    /\ lost \subseteq recoverSCD_(backupDir, scdLog)
    /\ Cardinality(lost) <= 1
    /\ Answer(lost = {})
    /\ LET back == recoverSCD_(backupDir, scdLog) \ lost IN
       /\ scdDir' = scdDir \cup back
       /\ backupDir' = backupDir \ back
    /\ currTotalSCDSize' = getTotalScdSize_(scdDir)
    /\ numdoc' = n
    /\ passes' = passes + 1
    /\ idxPc' = "scan"
    /\ idxResult' = "running"
    /\ scanned' = {}
    /\ passDispatch' = [f \in SCDFileNames |-> 0]
    /\ renameFailed' = {}
    /\ removeLog' = <<>>
    /\ dispatchLog' = <<>>
    /\ applyLog' = <<>>
    /\ idxBackup' = "none"
    /\ UNCHANGED bytesSinceBackup
    /\ skipLog' = <<>>
    /\ abandoned' = {}
    /\ sinceCancel' = 0
    /\ UNCHANGED <<scdLog, dirAtReturn, scdList, fileIdx, docPos, docIdList, fileDocs,
                   idxDirty, idxHasNext, mergePaused, dispatchCount, dispatchedAfterMove,
                   cancelRequested, totalSCDSizeSinceLastBackup_, numUpdatedDocs_, storeVars>>

\* lines 957-1023: the scan, the sort and the directory guard
BuildScan ==
    /\ idxPc = "scan"
    /\ IF scdDir = {} \/ idxDirty
       THEN /\ Return("false")
            /\ UNCHANGED scanned
       ELSE /\ scdList' = sortSCD(scdDir)
            /\ scanned' = scdDir
            /\ fileIdx' = 1
            /\ idxPc' = "dispatch"
            /\ UNCHANGED <<idxResult, dirAtReturn, numdoc, docPos, docIdList,
                           currTotalSCDSize>>
    /\ UNCHANGED <<fsVars, envVars, dispatchCount, passDispatch, dispatchedAfterMove,
                   renameFailed, removeLog, orderHist, cancelRequested, faults,
                   totalSCDSizeSinceLastBackup_, numUpdatedDocs_, storeVars>>

\* lines 1030-1077: one iteration of the dispatch loop takes the next file;
\* loadOk is the answer of parser.load in doBuildCollection_ (line 1597) and,
\* for a delete file, of parser.getDocIdList (line 1791); the loop ignores a
\* false answer of doBuildCollection_ (lines 1047-1050, 1059, 1070)
DispatchFile(loadOk) ==
    /\ idxPc = "dispatch"
    /\ fileIdx <= Len(scdList)
    /\ LET f == scdList[fileIdx]
           type == checkSCDType(f)
       IN
       /\ dispatchCount' = [dispatchCount EXCEPT ![f] = @ + 1]
       /\ passDispatch' = [passDispatch EXCEPT ![f] = @ + 1]
       /\ dispatchLog' = Append(dispatchLog, f)
       /\ dispatchedAfterMove' =
             IF f \in backupDir THEN dispatchedAfterMove \cup {f}
             ELSE dispatchedAfterMove
       /\ IF type = "DELETE_SCD" /\ dmGetMaxDocId(Store) = 0
          THEN /\ loadOk /\ UNCHANGED faults          \* line 1060: nothing is loaded
               /\ fileIdx' = nextFile(fileIdx)
               /\ UNCHANGED <<idxPc, docPos, docIdList, removeLog, abandoned>>
          ELSE /\ Answer(loadOk)
               /\ IF ~loadOk
                  THEN /\ fileIdx' = nextFile(fileIdx)
                       /\ abandoned' = abandoned \cup {f}
                       /\ UNCHANGED <<idxPc, docPos, docIdList, removeLog>>
                  ELSE IF type = "DELETE_SCD"
                  THEN /\ docIdList' =
                             docIdListSorted(resolveDocIds(Store, fileDocs[f]))
                       /\ removeLog' = <<>>
                       /\ idxPc' = "delete"
                       /\ UNCHANGED <<fileIdx, docPos, abandoned>>
                  ELSE /\ idxPc' = "docs"
                       /\ docPos' = 1
                       /\ UNCHANGED <<fileIdx, docIdList, removeLog, abandoned>>
    /\ UNCHANGED <<fsVars, envVars, idxResult, dirAtReturn, numdoc, scdList,
                   currTotalSCDSize, scanned, renameFailed, applyLog, idxBackup, bytesSinceBackup,
                   skipLog, sinceCancel, cancelRequested,
                   totalSCDSizeSinceLastBackup_, numUpdatedDocs_, storeVars>>

\* the loop of insertOrUpdateSCD_ with numdoc handed to update files as well
docsDoneLimitAll ==
    \/ docPos > Len(fileDocs[scdList[fileIdx]])
    \/ (0 < numdoc /\ numdoc <= docPos - 1)

\* the loop of insertOrUpdateSCD_ is over (lines 1659-1674): end of file, or
\* numdoc documents of an insert file were taken
docsDone ==
    LET f == scdList[fileIdx]
        limit == IF checkSCDType(f) = "INSERT_SCD" THEN numdoc ELSE 0
    IN
    \/ docPos > Len(fileDocs[f])
    \/ (0 < limit /\ limit <= docPos - 1)

\* insertOrUpdateSCD_, lines 1696-1717: what the loop does with a record
\* prepareDocument_ has answered p for; updated tells whether
\* ++numUpdatedDocs_ of line 1717 was reached
insertOrUpdatePrepared(p, isInsert, hookOk, accept) ==
    IF ~p.ok
    THEN [prepared |-> FALSE, ok |-> FALSE, updated |-> FALSE, s |-> p.s]
    ELSE IF isInsert \/ p.oldId = 0
    THEN LET r == insertDoc_(p.s, p.document, hookOk, accept) IN
         [prepared |-> TRUE, ok |-> r.ok, updated |-> FALSE, s |-> r.s]
    ELSE LET r == updateDoc_(p.s, p.document, p.oldId, p.rType, hookOk, accept) IN
         [prepared |-> TRUE, ok |-> r.ok, updated |-> r.ok, s |-> r.s]

\* insertOrUpdateSCD_, lines 1685-1717: the body of the loop for one record
insertOrUpdateRecord(s, rec, isInsert, hookOk, accept) ==
    insertOrUpdatePrepared(prepareDocument_(s, rec, isInsert), isInsert, hookOk, accept)

\* insertOrUpdateSCD_, lines 1693-1722: the effects of the record of file f
\* at the iterator, r being the outcome of the body of the loop
DocApplied(f, r, hookOk, accept) ==
    /\ r.s.idLast <= MaxIds
    /\ IF r.prepared THEN Answer(hookOk /\ accept)
       ELSE hookOk /\ accept /\ UNCHANGED faults
    /\ SetStore(r.s)
    /\ numUpdatedDocs_' = IF r.updated THEN numUpdatedDocs_ + 1 ELSE numUpdatedDocs_
    /\ applyLog' = Append(applyLog, <<f, docPos>>)
    /\ skipLog' = IF r.ok THEN skipLog ELSE Append(skipLog, <<f, docPos>>)
    /\ sinceCancel' = IF r.ok /\ cancelRequested THEN sinceCancel + 1 ELSE sinceCancel
    /\ IF r.ok /\ cancelRequested            \* interruption_point, line 1722
       THEN Interrupted
       ELSE /\ docPos' = docPos + 1
            /\ UNCHANGED <<ctlVars, numdoc, scdList, fileIdx, docIdList,
                           currTotalSCDSize, cancelRequested>>

\* insertOrUpdateSCD_, lines 1645-1727: one document of the file
DocStep(hookOk, accept) ==
    /\ idxPc = "docs"
    /\ ~docsDone
    /\ DocApplied(scdList[fileIdx],
                  insertOrUpdateRecord(Store, fileDocs[scdList[fileIdx]][docPos],
                                       checkSCDType(scdList[fileIdx]) = "INSERT_SCD",
                                       hookOk, accept),
                  hookOk, accept)
    /\ UNCHANGED <<fsVars, envVars, passHist, dispatchLog, idxBackup, bytesSinceBackup, abandoned,
                   totalSCDSizeSinceLastBackup_>>

\* insertOrUpdateSCD_, lines 1663-1667: the parser hands out no document at
\* the position of the iterator; the file is given up and the dispatch loop
\* goes on with the next one
DocInvalid ==
    /\ idxPc = "docs"
    /\ docPos <= Len(fileDocs[scdList[fileIdx]])
    /\ Answer(FALSE)
    /\ abandoned' = abandoned \cup {scdList[fileIdx]}
    /\ idxPc' = "dispatch"
    /\ fileIdx' = nextFile(fileIdx)
    /\ UNCHANGED <<fsVars, envVars, passHist, dispatchLog, applyLog, idxBackup, bytesSinceBackup,
                   skipLog, sinceCancel, idxResult, dirAtReturn, numdoc, scdList, docPos,
                   docIdList, currTotalSCDSize, cancelRequested,
                   totalSCDSizeSinceLastBackup_, numUpdatedDocs_, storeVars>>

\* insertOrUpdateSCD_ returns and the dispatch loop goes on (lines 1725, 1078)
DocsEnd ==
    /\ idxPc = "docs"
    /\ docsDone
    /\ idxPc' = "dispatch"
    /\ fileIdx' = nextFile(fileIdx)
    /\ UNCHANGED <<fsVars, envVars, passHist, orderHist, idxResult, dirAtReturn,
                   numdoc, scdList,
                   docPos, docIdList, currTotalSCDSize, cancelRequested, faults,
                   totalSCDSizeSinceLastBackup_, numUpdatedDocs_, storeVars>>

\* deleteSCD_, lines 1822-1859: one docid of the sorted list
DeleteStep(hookOk) ==
    /\ idxPc = "delete"
    /\ docIdList # <<>>
    /\ Answer(hookOk)
    /\ LET r == deleteDoc_(Store, Head(docIdList), hookOk) IN
       /\ SetStore(r.s)
       /\ removeLog' = IF r.ok THEN Append(removeLog, Head(docIdList)) ELSE removeLog
       /\ sinceCancel' = IF r.ok /\ cancelRequested THEN sinceCancel + 1 ELSE sinceCancel
    /\ docIdList' = Tail(docIdList)
    /\ UNCHANGED <<fsVars, envVars, ctlVars, numdoc, scdList, fileIdx, docPos,
                   currTotalSCDSize, scanned, dispatchCount, passDispatch,
                   dispatchedAfterMove, renameFailed, dispatchLog, applyLog, idxBackup, bytesSinceBackup,
                   skipLog, abandoned, cancelRequested,
                   totalSCDSizeSinceLastBackup_, numUpdatedDocs_>>

\* deleteSCD_, lines 1861-1867: the interruption point after the loop
DeleteEnd ==
    /\ idxPc = "delete"
    /\ docIdList = <<>>
    /\ IF cancelRequested
       THEN Interrupted
       ELSE /\ idxPc' = "dispatch"
            /\ fileIdx' = nextFile(fileIdx)
            /\ UNCHANGED <<idxResult, dirAtReturn, numdoc, scdList, docPos, docIdList,
                           currTotalSCDSize, cancelRequested>>
    /\ UNCHANGED <<fsVars, envVars, passHist, orderHist, faults,
                   totalSCDSizeSinceLastBackup_, numUpdatedDocs_, storeVars>>

\* lines 1113-1118 (and 1265-1270): pauseMerge, DoMiningCollection and
\* resumeMerge in a row; an exception of the mining leaves before resumeMerge
DoMiningUnderPause(paused, miningOk) == IF miningOk THEN FALSE ELSE TRUE

\* lines 1091-1126: flush, FinishHook and mining after the last file; a false
\* FinishHook and an exception of the mining both make the pass return false
BuildFinish(hookOk, miningOk) ==
    /\ idxPc = "dispatch"
    /\ fileIdx > Len(scdList)
    /\ hookOk \/ miningOk                 \* after a false FinishHook no mining runs
    /\ Answer(hookOk /\ miningOk)
    /\ IF hookOk /\ miningOk
       THEN /\ idxPc' = "move"
            /\ fileIdx' = 1
            /\ UNCHANGED <<idxResult, dirAtReturn, numdoc, scdList, docPos, docIdList,
                           currTotalSCDSize>>
       ELSE Return("false")
    /\ mergePaused' = IF hookOk THEN DoMiningUnderPause(mergePaused, miningOk)
                      ELSE mergePaused
    /\ UNCHANGED <<fsVars, fileDocs, passes, idxDirty, idxHasNext, passHist, orderHist,
                   cancelRequested, totalSCDSizeSinceLastBackup_, numUpdatedDocs_, storeVars>>

\* lines 1133-1145: one file of the move to backup/; a failed rename is logged
MoveFile(renameOk) ==
    /\ idxPc = "move"
    /\ fileIdx <= Len(scdList)
    /\ Answer(renameOk)
    /\ LET f == scdList[fileIdx] IN
       IF renameOk
       THEN /\ scdDir' = renameToBackup(scdDir, f)
            /\ backupDir' = backupDir \cup {f}
            /\ scdLog' = scdLog \cup {f}                    \* appendSCD, line 1138
            /\ UNCHANGED renameFailed
       ELSE /\ renameFailed' = renameFailed \cup {f}
            /\ UNCHANGED fsVars
    /\ fileIdx' = fileIdx + 1
    /\ UNCHANGED <<envVars, ctlVars, numdoc, scdList, docPos, docIdList,
                   currTotalSCDSize, scanned, dispatchCount, passDispatch,
                   dispatchedAfterMove, removeLog, orderHist, cancelRequested,
                   totalSCDSizeSinceLastBackup_, numUpdatedDocs_, storeVars>>

\* backup_, lines 2735-2767; the test for a valid copy (line 2747) is a comment
backup_(hasNext, cur, nxt, copyOk) ==
    IF hasNext
    THEN IF copyOk THEN [ok |-> TRUE, copied |-> TRUE, next |-> cur, did |-> "copied"]
         ELSE [ok |-> FALSE, copied |-> FALSE, next |-> -1, did |-> "failed"]
    ELSE [ok |-> TRUE, copied |-> FALSE, next |-> nxt, did |-> "skipped"]

\* requireBackup_ without the test for a next directory
requireBackupAnyNext(acc, size, hasNext) ==
    [total |-> acc + size, require |-> acc + size > threshold]

\* requireBackup_, lines 2716-2733
requireBackup_(acc, size, hasNext) ==
    [total |-> acc + size, require |-> hasNext /\ acc + size > threshold]

\* lines 1164-1177: the guard is dropped, then requireBackup_, ForceCommit and
\* backup_ (lines 2735-2767); copyOk is the outcome of next->copyFrom(*current)
BuildEnd(copyOk) ==
    /\ idxPc = "move"
    /\ fileIdx > Len(scdList)
    /\ numUpdatedDocs_' = 0                                      \* line 1154
    /\ LET rb == requireBackup_(totalSCDSizeSinceLastBackup_, currTotalSCDSize,
                                idxHasNext)
           b == backup_(idxHasNext, 0, -1, copyOk)
       IN
       IF rb.require
       THEN /\ IF b.did = "skipped" THEN copyOk /\ UNCHANGED faults
               ELSE Answer(copyOk)
            /\ idxBackup' = IF b.did = "skipped" THEN "none" ELSE b.did
            /\ IF b.ok
               THEN /\ totalSCDSizeSinceLastBackup_' = 0           \* line 1174
                    /\ bytesSinceBackup' = 0
                    /\ Return("true")
               ELSE /\ totalSCDSizeSinceLastBackup_' = rb.total
                    /\ UNCHANGED bytesSinceBackup
                    /\ Return("false")                            \* line 1173
       ELSE /\ copyOk /\ UNCHANGED <<faults, idxBackup>>
            /\ totalSCDSizeSinceLastBackup_' = rb.total
            /\ bytesSinceBackup' = bytesSinceBackup + SumFileSize(scanned)
            /\ Return("true")
    /\ UNCHANGED <<fsVars, envVars, passHist, dispatchLog, applyLog, skipLog,
                   abandoned, sinceCancel, cancelRequested, storeVars>>

IdxNext ==
    \/ \E f \in SCDFileNames : \E c \in Contents(f) : FileArrives(f, c)
    \/ RequestCancel
    \/ IdxMarkDirty
    \/ \E n \in 0..MaxNumdoc, lost \in SUBSET SCDFileNames : BuildStart(n, lost)
    \/ BuildScan
    \/ \E loadOk \in BOOLEAN : DispatchFile(loadOk)
    \/ \E o \in Outcomes : DocStep(o[1], o[2])
    \/ DocInvalid
    \/ DocsEnd
    \/ \E hookOk \in BOOLEAN : DeleteStep(hookOk)
    \/ DeleteEnd
    \/ \E hookOk \in BOOLEAN, miningOk \in BOOLEAN : BuildFinish(hookOk, miningOk)
    \/ \E renameOk \in BOOLEAN : MoveFile(renameOk)
    \/ \E copyOk \in BOOLEAN : BuildEnd(copyOk)

\* ---- a build pass on the thread of the JobScheduler (line 904) next to the
\* driver API, which runs on the thread of its caller (lines 1309, 1425, 1480)
\* and shares no lock with buildCollection ----
\* the steps of one pass whose collaborators all answer ok, over an insert
\* file and a delete file of one record each
PassStep ==
    \/ FileArrives(FileI, <<FullDoc("A")>>)
    \/ FileArrives(FileD, <<<<<<"DOCID", "A">>>>>>)
    \/ passes = 0 /\ BuildStart(0, {})
    \/ BuildScan
    \/ DispatchFile(TRUE)
    \/ DocStep(TRUE, TRUE)
    \/ DocsEnd
    \/ DeleteStep(TRUE)
    \/ DeleteEnd
    \/ BuildFinish(TRUE, TRUE)
    \/ MoveFile(TRUE)
    \/ BuildEnd(TRUE)

\* a call of the driver API while the pass is where it is
DriverWrite ==
    \/ createDocument(FullDoc("B"), TRUE, TRUE, TRUE)
    \/ \E h \in Hashes : destroyDocument(h, TRUE, TRUE)

\* ---- the first steps of a pass after a rotation of the directory pair ----
RecoverNext ==
    \/ \E lost \in SUBSET SCDFileNames : BuildStart(0, lost)
    \/ BuildScan

ConcNext ==
    \/ PassStep /\ UNCHANGED <<scdProps, lastOp, logVars>>
    \/ DriverWrite /\ UNCHANGED idxVars

(***************************************************************************)
(* IndexWorker::rebuildCollection (lines 1180-1276)                        *)
(***************************************************************************)
SrcDocIds == 1..MaxSrcIds

\* the source stores: the live documents that carry a DOCID carry distinct ones
SrcStores ==
    {st \in [docs : [SrcDocIds -> Hashes \cup {""}], del : SUBSET SrcDocIds] :
        \A d, e \in SrcDocIds \ st.del :
            (d # e /\ st.docs[d] # "") => st.docs[d] # st.docs[e]}

EmptyStore ==
    [idMap |-> [h \in Hashes \cup {"Z"} |-> 0], idLast |-> 0,
     docs |-> [d \in DocIds |-> NoDoc], del |-> {}, maxDocId |-> 0, index |-> {}]

RebuiltDoc(newDocId, h) == [id |-> newDocId, DOCID |-> h, props |-> EmptyProps]

\* the stores the walk may write to: empty, or left by one insert of "A" and
\* possibly its removal
TargetStores ==
    LET c == createInsertDocId_(EmptyStore, "A")
        one == insertDoc_(c.s, RebuiltDoc(c.newId, "A"), TRUE, TRUE).s
    IN {EmptyStore, one, deleteDoc_(one, c.newId, TRUE).s}

RebInit ==
    /\ \E st \in SrcStores : srcDocs = st.docs /\ srcDel = st.del
    /\ rebPc = "idle"
    /\ curDocId = 0
    /\ rebInterrupt = FALSE
    /\ rebFlushed = {}
    /\ rebBase = 0
    /\ rebLog = <<>>

\* a walk that skips only the documents without DOCID
skipSourceKeepDeleted(d) == srcDocs[d] = ""

\* lines 1201-1219: a deleted document and a document without DOCID are skipped
skipSource(d) == d \in srcDel \/ srcDocs[d] = ""

\* what the walk leaves alone in the build-pass state
rebIdxRest == <<fsVars, ctlVars, localVars, fileDocs, passes, idxDirty, idxHasNext,
                passHist, orderHist, cancelRequested, totalSCDSizeSinceLastBackup_, numUpdatedDocs_>>

\* lines 1180-1199: entry, the loop starts at docid 1
RebuildStart ==
    /\ rebPc = "idle"
    /\ rebPc' = "walk"
    /\ curDocId' = 1
    /\ rebBase' = idLast
    /\ rebLog' = <<>>
    /\ UNCHANGED <<srcDocs, srcDel, rebInterrupt, rebFlushed, storeVars, rebIdxRest,
                   mergePaused, faults>>

\* an interruption of the thread that runs reindex is requested
RebInterruptRequest ==
    /\ rebPc = "walk"
    /\ ~rebInterrupt
    /\ rebInterrupt' = TRUE
    /\ UNCHANGED <<srcDocs, srcDel, rebPc, curDocId, rebFlushed, rebBase, rebLog, storeVars,
                   rebIdxRest, mergePaused, faults>>

\* lines 1199-1249: one iteration of the loop over the source docids
RebuildStep(hookOk, accept) ==
    /\ rebPc = "walk"
    /\ curDocId <= MaxSrcIds
    /\ IF skipSource(curDocId)
       THEN /\ hookOk /\ accept
            /\ curDocId' = curDocId + 1
            /\ UNCHANGED <<rebPc, rebLog, storeVars, faults>>
       ELSE LET c == createInsertDocId_(Store, srcDocs[curDocId])
                r == insertDoc_(c.s, RebuiltDoc(c.newId, srcDocs[curDocId]), hookOk, accept)
            IN /\ c.s.idLast <= MaxIds
               /\ IF ~c.ok
                  THEN /\ hookOk /\ accept
                       /\ SetStore(c.s)
                       /\ curDocId' = curDocId + 1
                       /\ UNCHANGED <<rebPc, rebLog, faults>>
                  ELSE /\ Answer(hookOk /\ accept)
                       /\ hookOk \/ accept
                       /\ SetStore(r.s)
                       /\ rebLog' = IF r.ok THEN Append(rebLog, <<curDocId, c.newId>>)
                                    ELSE rebLog
                       /\ IF r.ok /\ rebInterrupt
                          THEN rebPc' = "interrupted" /\ UNCHANGED curDocId
                          ELSE curDocId' = curDocId + 1 /\ UNCHANGED rebPc
    /\ UNCHANGED <<srcDocs, srcDel, rebInterrupt, rebFlushed, rebBase, rebIdxRest, mergePaused>>

\* lines 1253-1275: the three flushes, then mining between pauseMerge and
\* resumeMerge; an exception of the mining leaves the function
RebuildFinish(miningOk) ==
    /\ rebPc = "walk"
    /\ curDocId > MaxSrcIds
    /\ Answer(miningOk)
    /\ rebFlushed' = {"documentManager", "idManager", "indexManager"}
    /\ mergePaused' = DoMiningUnderPause(mergePaused, miningOk)
    /\ rebPc' = IF miningOk THEN "done" ELSE "threw"
    /\ UNCHANGED <<srcDocs, srcDel, curDocId, rebInterrupt, rebBase, rebLog, storeVars,
                   rebIdxRest>>

RebNext ==
    \/ RebuildStart
    \/ RebInterruptRequest
    \/ \E hookOk, accept \in BOOLEAN : RebuildStep(hookOk, accept)
    \/ \E miningOk \in BOOLEAN : RebuildFinish(miningOk)

(***************************************************************************)
(* IndexWorker: the directory pair seen by backup_, optimizeIndex, reindex *)
(***************************************************************************)
DirInit ==
    /\ curData = 0
    /\ nextData = -1
    /\ dirGuard = FALSE
    /\ optPc = "idle"
    /\ optResult = "none"
    /\ lastBackup = "none"
    /\ redundantCopy = FALSE
    /\ unguardedMutation = FALSE

\* createDocument, updateDocument, destroyDocument as the directory sees them
\* (lines 1311-1316, 1427-1432, 1482-1487): a write under a DirectoryGuard
guardedWrite ==
    /\ optPc = "idle"
    /\ ~idxDirty
    /\ curData < MaxWrites
    /\ curData' = curData + 1
    /\ UNCHANGED <<nextData, dirGuard, optPc, optResult, lastBackup, redundantCopy,
                   unguardedMutation, idxVars, storeVars>>

\* reindex (lines 908-913) runs rebuildCollection (lines 1180-1276), which
\* re-inserts the documents and takes no DirectoryGuard
reindex ==
    /\ optPc = "idle"
    /\ curData < MaxWrites
    /\ curData' = curData + 1
    /\ unguardedMutation' = TRUE
    /\ UNCHANGED <<nextData, dirGuard, optPc, optResult, lastBackup, redundantCopy,
                   idxVars, storeVars>>

\* optimizeIndex, lines 1280-1281: backup_ before any guard is taken
optimizeIndexBackup(copyOk) ==
    /\ optPc = "idle"
    /\ LET b == backup_(idxHasNext, curData, nextData, copyOk) IN
       /\ copyOk \/ idxHasNext
       /\ nextData' = b.next
       /\ lastBackup' = b.did
       /\ redundantCopy' = (redundantCopy \/ (b.did # "skipped" /\ nextData = curData))
       /\ unguardedMutation' = (unguardedMutation \/ (b.did # "skipped" /\ ~dirGuard))
       /\ IF b.ok THEN optPc' = "guard" /\ optResult' = "none"
          ELSE optPc' = "idle" /\ optResult' = "false"
    /\ UNCHANGED <<curData, dirGuard, idxVars, storeVars>>

\* optimizeIndex, lines 1283-1288: the DirectoryGuard
optimizeIndexGuard ==
    /\ optPc = "guard"
    /\ IF idxDirty
       THEN optPc' = "idle" /\ optResult' = "false" /\ UNCHANGED dirGuard
       ELSE optPc' = "optimize" /\ dirGuard' = TRUE /\ UNCHANGED optResult
    /\ UNCHANGED <<curData, nextData, lastBackup, redundantCopy, unguardedMutation,
                   idxVars, storeVars>>

\* optimizeIndex, lines 1289-1291: indexManager_->optimizeIndex() rewrites the
\* index files of current; the guard is dropped on return
optimizeIndexRun ==
    /\ optPc = "optimize"
    /\ curData' = IF curData < MaxWrites THEN curData + 1 ELSE curData
    /\ unguardedMutation' = (unguardedMutation \/ ~dirGuard)
    /\ dirGuard' = FALSE
    /\ optPc' = "idle"
    /\ optResult' = "true"
    /\ UNCHANGED <<nextData, lastBackup, redundantCopy, idxVars, storeVars>>

DirNext ==
    \/ guardedWrite
    \/ reindex
    \/ \E copyOk \in BOOLEAN : optimizeIndexBackup(copyOk)
    \/ optimizeIndexGuard
    \/ optimizeIndexRun
    \/ (IdxMarkDirty /\ optPc = "idle" /\ UNCHANGED dirVars)

(***************************************************************************)
(* Specifications                                                          *)
(***************************************************************************)
vars == <<jobVars, recVars, ordVars, purVars, visVars, docVars, idxVars, dirVars, rebVars>>

\* the specifications of the other components keep the source store empty
RebQuiet == srcDocs = [d \in SrcDocIds |-> ""] /\ srcDel = {}

Init == JobInit /\ RecInit /\ OrdInit /\ PurInit /\ VisInit /\ DocInit /\ IdxInit /\ DirInit /\ RebInit /\ RebQuiet

\* the configuration a specification fixes for the components it leaves alone
RecQuiet == recHasNext
DocQuiet == scdProps = {"price", "title"} /\ ~logCreatedDoc_
LogOff == ~logCreatedDoc_
LogOn == scdProps = {"price", "title"} /\ logCreatedDoc_
IdxQuiet == idxHasNext

\* the initial states of each specification
InitJob == Init /\ RecQuiet /\ DocQuiet /\ IdxQuiet
InitRecommend == Init /\ DocQuiet /\ IdxQuiet
InitOrder == Init /\ RecQuiet /\ DocQuiet /\ IdxQuiet
InitPurchase == Init /\ RecQuiet /\ DocQuiet /\ IdxQuiet
InitVisit == Init /\ RecQuiet /\ DocQuiet /\ IdxQuiet
InitDoc == Init /\ RecQuiet /\ IdxQuiet /\ LogOff
InitLogServer == Init /\ RecQuiet /\ IdxQuiet /\ LogOn
InitIndex == Init /\ RecQuiet /\ DocQuiet
InitRecover ==
    /\ JobInit /\ RecInit /\ OrdInit /\ PurInit /\ VisInit /\ DocInit /\ DirInit /\ RebInit /\ RebQuiet
    /\ FsAfterRotation /\ IdxInitCore
    /\ RecQuiet /\ DocQuiet
InitConcurrent == Init /\ RecQuiet /\ DocQuiet /\ IdxQuiet
InitDirectory == Init /\ RecQuiet /\ DocQuiet
InitRebuild ==
    /\ JobInit /\ RecInit /\ OrdInit /\ PurInit /\ VisInit /\ IdxInit /\ DirInit /\ RebInit
    /\ \E t \in TargetStores :
          /\ idMap = t.idMap /\ idLast = t.idLast /\ docs = t.docs
          /\ delfilter = t.del /\ maxDocId = t.maxDocId /\ indexDocs = t.index
    /\ scdProps = {"price", "title"} /\ logCreatedDoc_ = FALSE
    /\ lastOp = NoOp /\ lastLog = NoLog
    /\ RecQuiet /\ IdxQuiet

SpecJob ==
    InitJob /\ [][JobNext /\ UNCHANGED <<rebVars, visVars, recVars, ordVars, purVars, docVars, idxVars, dirVars>>]_vars

\* the worker thread is scheduled and tasks end: every step of the worker that
\* stays possible is taken, and join returns once the thread has exited
SpecJobLive ==
    /\ SpecJob
    /\ WF_vars(WorkerStep /\ UNCHANGED <<rebVars, visVars, recVars, ordVars, purVars, docVars, idxVars, dirVars>>)
    /\ WF_vars(closeJoin /\ UNCHANGED <<rebVars, visVars, recVars, ordVars, purVars, docVars, idxVars, dirVars>>)

SpecRecommend ==
    InitRecommend /\ [][RecNext /\ UNCHANGED <<rebVars, visVars, jobVars, ordVars, purVars, docVars, idxVars, dirVars>>]_vars

SpecOrder ==
    InitOrder /\ [][OrdNext /\ UNCHANGED <<rebVars, visVars, jobVars, recVars, purVars, docVars, idxVars, dirVars>>]_vars

SpecPurchase ==
    InitPurchase
    /\ [][PurNext /\ UNCHANGED <<rebVars, visVars, jobVars, recVars, ordVars, docVars, idxVars, dirVars>>]_vars

SpecVisit ==
    InitVisit
    /\ [][VisNext /\ UNCHANGED <<rebVars, jobVars, recVars, ordVars, purVars, docVars, idxVars, dirVars>>]_vars

SpecDoc ==
    InitDoc /\ [][DocNext /\ UNCHANGED <<rebVars, visVars, jobVars, recVars, ordVars, purVars, idxVars, dirVars>>]_vars

SpecLogServer ==
    InitLogServer
    /\ [][DocNext /\ UNCHANGED <<rebVars, visVars, jobVars, recVars, ordVars, purVars, idxVars, dirVars>>]_vars

SpecConcurrent ==
    InitConcurrent
    /\ [][ConcNext /\ UNCHANGED <<rebVars, visVars, jobVars, recVars, ordVars, purVars, dirVars>>]_vars

SpecRecover ==
    InitRecover
    /\ [][RecoverNext
           /\ UNCHANGED <<rebVars, visVars, jobVars, recVars, ordVars, purVars, scdProps, lastOp,
                          logVars, dirVars>>]_vars

SpecIndex ==
    InitIndex
    /\ [][IdxNext /\ UNCHANGED <<rebVars, visVars, jobVars, recVars, ordVars, purVars, scdProps, lastOp, logVars, dirVars>>]_vars

SpecDirectory ==
    InitDirectory
    /\ [][DirNext /\ UNCHANGED <<rebVars, visVars, jobVars, recVars, ordVars, purVars, scdProps, lastOp, logVars>>]_vars

SpecRebuild ==
    InitRebuild
    /\ [][RebNext /\ UNCHANGED <<visVars, jobVars, recVars, ordVars, purVars, scdProps, lastOp,
                                 logVars, dirVars>>]_vars

(***************************************************************************)
(* Claims                                                                  *)
(***************************************************************************)

\* C1: a cron tick that fires while RecommendTaskService::buildCollection is
\* in progress (from entry to return) never gets into flush_ or
\* buildFreqItemSet_.
C1_CronSkipsDuringBuild ==
    ~(cronPc \in {"flush", "freq"} /\ cronFiredInBuild)

\* C2: tasks are started in the order addTask enqueued them and one at a
\* time: when a task has been started, every task enqueued before it has
\* already finished.
C2_TasksRunInEnqueueOrder ==
    /\ \A i \in 1..Len(started) : started[i] = i
    /\ \A i \in 1..Len(started) : \A t \in 1..(started[i] - 1) : t \in ended

C2_Witness ==
    /\ Len(started) >= 2
    /\ taskKind[started[1]] = "build"
    /\ taskKind[started[2]] = "build"

\* C3: a task that throws does not terminate the worker.
C3_WorkerSurvivesThrow ==
    workerPc # "terminated"

\* C4: once close() has been called, no task is started any more.
C4_NoStartAfterClose ==
    startedAfterClose = {}

\* C10: the OrderMap never holds more than MAX_ORDER_NUM keys.
C10_OrderMapBounded ==
    Cardinality(DOMAIN orderMap) <= MAX_ORDER_NUM

C10_Witness ==
    /\ Cardinality(DOMAIN orderMap) = MAX_ORDER_NUM
    /\ ordFlushes >= 1

\* ---- helpers of the claims about order records ----
RECURSIVE CountIn(_, _)
CountIn(x, seq) ==
    IF seq = <<>> THEN 0
    ELSE (IF Head(seq) = x THEN 1 ELSE 0) + CountIn(x, Tail(seq))

\* how often record r was handed to saveOrder_, over all its calls
RECURSIVE SavedCount(_, _)
SavedCount(r, log) ==
    IF log = <<>> THEN 0
    ELSE (IF Head(log).user = r[1] /\ Head(log).order = r[2]
          THEN CountIn(r[3], Head(log).items) ELSE 0) + SavedCount(r, Tail(log))

\* how often record r is staged in the OrderMap
StagedCount(r, map) ==
    IF <<r[1], r[2]>> \in DOMAIN map THEN CountIn(r[3], map[<<r[1], r[2]>>]) ELSE 0

\* C11: every order record parsed from the file is handed to saveOrder_
\* exactly once by the time the parse of the file finishes; until then a
\* record is either saved once or staged once in the OrderMap, never both and
\* never twice.
C11_EveryRecordSavedOnce ==
    /\ ordPc = "parsing" =>
          \A r \in OrderRecords :
              SavedCount(r, savedOrders) + StagedCount(r, orderMap) = ordRecords[r]
    /\ ordPc = "done" =>
          \A r \in OrderRecords : SavedCount(r, savedOrders) = ordRecords[r]

\* a finished parse that wrote one record through, flushed the full map once
\* and saved the rest at the end of the file
C11_Witness ==
    /\ ordPc = "done"
    /\ ordFlushes = 1
    /\ Len(savedOrders) = 4
    /\ \E i \in 1..Len(savedOrders) : savedOrders[i].order = ""

\* C12 as stated: when all item ids of an order resolve, saveOrder_ attempts
\* the order store, the purchase store and the query-purchase counter, each
\* whatever the outcome of the others.
C12_AllThreeAttempted ==
    (lastSave.called /\ lastSave.attempted # {}) =>
        lastSave.attempted = {"order", "purchase", "counter"}

\* C13: a request with an item string that does not resolve is answered with
\* failure, and the order store, the purchase store and the query-purchase
\* counter stay as they were.
C13_UnresolvedItemNoWrite ==
    [][(lastSave'.called /\ lastSave'.unknownItem) =>
          /\ ~lastSave'.saved
          /\ lastSave'.attempted = {}
          /\ UNCHANGED <<orderStore, purchaseStore, queryPurchaseCounter_>>]_vars

\* an order was saved, and the request after it named an unknown item
C13_Witness ==
    /\ lastSave.called /\ lastSave.unknownItem /\ ~lastSave.saved
    /\ Len(orderStore) = 1
    /\ saveCalls = 2
    /\ \E u \in Users : purchaseStore[u] # {}
    /\ queryPurchaseCounter_["q"][1] = 1

\* C14 as stated: when the current directory is marked dirty, a write entry
\* point fails without having modified the next directory (shown here for
\* optimizeIndex: at its guard, with current dirty, no copy has been made).
C14_DirtyEntryPointWritesNothing ==
    (idxDirty /\ optPc = "guard") => lastBackup # "copied"

\* C15 as stated: every mutation of the directory pair or of the stores,
\* the backup copy and the rebuild re-insertion included, happens while a
\* directory guard on current is held.
C15_MutationsUnderGuard ==
    ~unguardedMutation

\* C16 as stated: a backup_ that finds next already a valid copy of current
\* performs no copy.
C16_BackupIdempotent ==
    ~redundantCopy

\* C17: backupDataFiles calls next.copyFrom(current) exactly when next exists
\* under another name and is not yet a valid copy of current; otherwise it
\* changes nothing and buildCollection goes on; a copy that fails makes
\* buildCollection return false at once, and the stores are only reached
\* after a backupDataFiles that skipped the copy or made it.
C17_BackupDataFiles ==
    /\ [][(recBuildPc = "backup" /\ recBuildPc' # "backup") =>
            /\ (recLastBackup' \in {"copied", "failed"}) <=> (recHasNext /\ ~recNextValid)
            /\ recLastBackup' = "skipped" =>
                  (recBuildPc' = "guard" /\ recNextValid' = recNextValid)
            /\ recLastBackup' = "copied" => (recBuildPc' = "guard" /\ recNextValid')
            /\ recLastBackup' = "failed" =>
                  /\ recBuildPc' = "idle"
                  /\ recBuildResult' = "false"
                  /\ recNextValid' = recNextValid]_vars
    /\ [](recBuildPc \in {"lock", "user", "order"} =>
            recLastBackup \in {"skipped", "copied"})

\* a later build finds next already a valid copy and skips the copy
C17_Witness ==
    /\ recBuildPc = "guard"
    /\ recLastBackup = "skipped"
    /\ recNextValid
    /\ recBuildResult = "none"
    /\ cronLast = "skipped"

\* ---- helpers of the claims about single documents ----
\* the property of pair i of an SCD record differs from the persisted value of
\* the document the DOCID of the record resolves to
Differs(s, doc, i) ==
    LET d == s.idMap[doc[1][2]] IN
    \/ ~dmHasProperty(s, d, doc[i][1])
    \/ s.docs[d].props[doc[i][1]] # doc[i][2]

\* a change of this property needs the document to be tokenized again
NeedsReindex(p) ==
    Schema(p).isIndex /\ (Schema(p).isAnalyzed \/ ~Schema(p).isFilter)

\* the live documents of the store that carry DOCID h
LiveWithDOCID(s, h) == {d \in DocIds : dmLive(s, d) /\ s.docs[d].DOCID = h}

\* C6: an update classified R-type keeps the docid of the document and marks
\* nothing deleted; a non-R-type update of a known DOCID gets a docid greater
\* than the previous maximum docid and different from the old one, and when it
\* succeeds the old docid is marked deleted and the document is stored under
\* the new docid.
C6_UpdateDocidDiscipline ==
    \A doc \in SCDDocs, o \in Outcomes :
        LET h == doc[1][2]
            p == prepareDocument_(Store, doc, FALSE)
            r == updateDoc_(p.s, p.document, p.oldId, p.rType, o[1], o[2])
        IN
        (p.ok /\ p.s.idLast <= MaxIds) =>
            /\ p.rType =>
                  /\ p.document.id = p.oldId
                  /\ p.oldId = idMap[h]
                  /\ r.s.idMap = idMap
                  /\ r.s.del = delfilter
            /\ (~p.rType /\ p.oldId # 0) =>
                  /\ p.oldId = idMap[h]
                  /\ p.document.id > maxDocId
                  /\ p.document.id # p.oldId
                  /\ r.ok =>
                        /\ p.oldId \in r.s.del
                        /\ r.s.docs[p.document.id] = p.document
                        /\ r.s.idMap[h] = p.document.id

\* a full update moved a document from docid 1 to docid 2, and the last
\* operation was an R-type update that succeeded
C6_Witness ==
    /\ lastOp = [op |-> "update", rType |-> TRUE, ok |-> TRUE]
    /\ 1 \in delfilter
    /\ dmLive(Store, 2)
    /\ docs[1].DOCID = docs[2].DOCID
    /\ idMap[docs[2].DOCID] = 2

\* C7: checkRtype_ never answers R-type for a record in which a property
\* that is indexed and (analyzed or not filterable) differs from the persisted
\* value.
C7_RtypeConservative ==
    \A doc \in SCDDocs :
        checkRtype_(Store, doc).rType =>
            \A i \in 2..Len(doc) : ~(Differs(Store, doc, i) /\ NeedsReindex(doc[i][1]))

\* an R-type update has been applied, and in the state reached some record
\* changes a filter property together with a property that needs re-indexing
\* and is not classified R-type
C7_Witness ==
    /\ lastOp = [op |-> "update", rType |-> TRUE, ok |-> TRUE]
    /\ \E doc \in SCDDocs :
          /\ ~checkRtype_(Store, doc).rType
          /\ dmLive(Store, idMap[doc[1][2]])
          /\ \E i, j \in 2..Len(doc) :
                /\ Differs(Store, doc, i) /\ NeedsReindex(doc[i][1])
                /\ dmHasProperty(Store, idMap[doc[1][2]], doc[i][1])
                /\ Differs(Store, doc, j) /\ isRtypeProperty(doc[j][1])

C5_DispatchedOnceAndGone ==
    /\ \A f \in SCDFileNames : dispatchCount[f] <= 1
    /\ idxResult = "true" => dirAtReturn = {}

\* C5, amended: within one pass every scanned file is taken by the dispatch
\* loop exactly once and before any file is moved; only dispatched files get
\* into backup/, and a file in backup/ is never dispatched again; when a pass
\* has returned success, every file it scanned is in backup/ and gone from the
\* live bundle path unless its rename failed, in which case it is still there.
C5_DispatchedOncePerPass ==
    /\ \A f \in SCDFileNames : passDispatch[f] <= 1
    /\ \A f \in SCDFileNames : passDispatch[f] = 1 => f \in scanned
    /\ idxPc = "move" => \A f \in scanned : passDispatch[f] = 1
    /\ \A f \in backupDir : dispatchCount[f] >= 1
    /\ dispatchedAfterMove = {}
    /\ idxResult = "true" =>
          /\ \A f \in scanned \ renameFailed : f \in backupDir /\ f \notin dirAtReturn
          /\ \A f \in renameFailed : f \in scanned /\ f \in dirAtReturn

\* a file whose rename failed after a successful pass was dispatched again by
\* the next pass, which moved it to backup/
C5_Witness ==
    /\ idxResult = "true"
    /\ passes = 2
    /\ \E f \in backupDir : dispatchCount[f] = 2

\* C9: the docids a delete file removes from the document store and the index
\* are removed in ascending docid order, whatever the order of the DOCIDs in
\* the file.
C9_DeletesAscending ==
    /\ \A i, j \in 1..Len(removeLog) : i < j => removeLog[i] < removeLog[j]
    /\ \A i \in 1..Len(removeLog) :
          removeLog[i] \in delfilter /\ removeLog[i] \notin indexDocs
    /\ idxPc = "delete" =>
          \A i \in 1..Len(removeLog), j \in 1..Len(docIdList) :
              removeLog[i] < docIdList[j]

\* a delete file that lists two DOCIDs in descending docid order has removed
\* both documents
C9_Witness ==
    /\ Len(removeLog) = 2
    /\ Len(fileDocs[FileD]) = 2
    /\ idMap[fileDocs[FileD][1][1][2]] > idMap[fileDocs[FileD][2][1][2]]

\* ---- helpers of the claims about a build pass ----
\* the number of documents of file f a pass with this numdoc applies
DocsToApply(f, n) ==
    IF checkSCDType(f) = "INSERT_SCD" /\ n > 0 /\ n < Len(fileDocs[f])
    THEN n ELSE Len(fileDocs[f])

\* the number of documents of file f in the log of applied documents
AppliedOf(f) == Cardinality({k \in 1..Len(applyLog) : applyLog[k][1] = f})

\* no DOCID of the delete file resolves to a docid
DeleteListUnknown ==
    \A i \in 1..Len(fileDocs[FileD]) : idMap[fileDocs[FileD][i][1][2]] = 0

\* C18: at the end of a pass that got through the move of its files, a backup
\* copy is attempted exactly when next exists under another name and the
\* accumulated bundle size, this pass included, is above the threshold of 200;
\* a copy that succeeds resets the accumulator to 0 and the pass returns
\* true, a copy that fails leaves the accumulated value and the pass returns
\* false, and without a backup the accumulated value stays and the pass
\* returns true.
C18_BackupDecision ==
    [][(idxPc = "move" /\ idxPc' = "idle") =>
          LET total == totalSCDSizeSinceLastBackup_ + currTotalSCDSize
              due == idxHasNext /\ total > threshold
          IN
          /\ (idxBackup' \in {"copied", "failed"}) <=> due
          /\ idxBackup' = "copied" =>
                (totalSCDSizeSinceLastBackup_' = 0 /\ idxResult' = "true")
          /\ idxBackup' = "failed" =>
                (totalSCDSizeSinceLastBackup_' = total /\ idxResult' = "false")
          /\ ~due =>
                /\ idxBackup' = "none"
                /\ totalSCDSizeSinceLastBackup_' = total
                /\ idxResult' = "true"]_vars

\* the first pass stayed below the threshold and made no backup, the second
\* pass crossed it, copied and reset the accumulator
C18_Witness ==
    /\ passes = 2
    /\ idxPc = "idle"
    /\ idxResult = "true"
    /\ idxBackup = "copied"
    /\ totalSCDSizeSinceLastBackup_ = 0
    /\ backupDir = {FileI, FileU}
    /\ dispatchCount[FileI] = 1
    /\ dispatchCount[FileU] = 1

\* C19: the files of a pass are dispatched in the canonical order of their
\* names, none of the scanned files being passed over; the documents of an
\* insert or update file are applied from the first on, one position after
\* the other, and a file has had all its documents applied (numdoc of them for
\* an insert file when numdoc is set) before a document of the next file is
\* applied or the next file is dispatched.
C19_FileAndDocumentOrder ==
    /\ \A i, j \in 1..Len(dispatchLog) :
          i < j => FileRank(dispatchLog[i]) < FileRank(dispatchLog[j])
    /\ \A j \in 1..Len(dispatchLog) : \A f \in scanned :
          FileRank(f) < FileRank(dispatchLog[j]) =>
              \E i \in 1..(j - 1) : dispatchLog[i] = f
    /\ \A j \in 1..Len(dispatchLog) : dispatchLog[j] \in scanned
    /\ applyLog # <<>> => applyLog[1][2] = 1
    /\ \A k \in 1..(Len(applyLog) - 1) :
          \/ /\ applyLog[k + 1][1] = applyLog[k][1]
             /\ applyLog[k + 1][2] = applyLog[k][2] + 1
          \/ /\ FileRank(applyLog[k][1]) < FileRank(applyLog[k + 1][1])
             /\ applyLog[k + 1][2] = 1
    /\ \A k \in 1..Len(applyLog) :
          /\ \E j \in 1..Len(dispatchLog) : dispatchLog[j] = applyLog[k][1]
          /\ applyLog[k][2] <= Len(fileDocs[applyLog[k][1]])
    /\ idxPc \in {"dispatch", "docs", "delete", "move"} =>
          \A j \in 1..Len(dispatchLog) :
              LET f == dispatchLog[j] IN
              (/\ AppliedOf(f) > 0
               /\ f \notin abandoned
               /\ (j < Len(dispatchLog) \/ idxPc \in {"dispatch", "move"}))
                  => AppliedOf(f) = DocsToApply(f, numdoc)

\* one pass took the insert file with its two documents, then the update
\* file, then the delete file
C19_Witness ==
    /\ idxPc = "delete"
    /\ dispatchLog = <<FileI, FileU, FileD>>
    /\ applyLog = <<<<FileI, 1>>, <<FileI, 2>>, <<FileU, 1>>>>

\* C20: a delete file none of whose DOCIDs resolves to a docid leads to no
\* call of deleteDoc_: while it is dispatched the document store, the id
\* manager and the index stay as they are, and the pass goes on to the next
\* file (it ends early only when it is interrupted).
C20_DeleteUnknownIsNoop ==
    /\ [](idxPc = "delete" /\ DeleteListUnknown =>
            docIdList = <<>> /\ removeLog = <<>>)
    /\ [][(idxPc = "delete" /\ DeleteListUnknown) =>
            /\ UNCHANGED storeVars
            /\ idxPc' \in {"delete", "dispatch", "stopped"}
            /\ idxResult' \in {"running", "interrupted"}
            /\ idxResult' = "interrupted" => cancelRequested]_vars

\* the second pass consisted of a delete file that names only an unknown
\* DOCID, against a store that holds documents; it returned success and
\* nothing was deleted
C20_Witness ==
    /\ passes = 2
    /\ idxPc = "idle"
    /\ idxResult = "true"
    /\ scanned = {FileD}
    /\ dispatchLog = <<FileD>>
    /\ fileDocs[FileD] = <<<<<<"DOCID", "Z">>>>>>
    /\ maxDocId > 0
    /\ delfilter = {}
    /\ FileD \in backupDir

\* C21: a document that fails its preparation or is turned down by a store
\* is skipped and the loop goes on with the next document of the file; a file
\* that cannot be loaded or parsed is given up and the dispatch loop goes on
\* with the next file; the pass keeps running in both cases, so that every
\* scanned file is dispatched and, of a readable file, every document after a
\* skipped one is still applied.
C21_FailuresIsolated ==
    /\ [][/\ skipLog' # skipLog /\ skipLog' # <<>> =>
               /\ idxPc' = "docs"
               /\ docPos' = docPos + 1
               /\ fileIdx' = fileIdx
               /\ idxResult' = "running"
          /\ abandoned' # abandoned /\ abandoned' # {} =>
               /\ idxPc' = "dispatch"
               /\ fileIdx' = fileIdx + 1
               /\ idxResult' = "running"]_vars
    /\ [](idxPc \in {"dispatch", "docs", "delete", "move"} =>
            /\ \A j \in 1..Len(dispatchLog) : dispatchLog[j] = scdList[j]
            /\ idxPc = "move" => Len(dispatchLog) = Len(scdList)
            /\ \A k \in 1..Len(skipLog) :
                  LET f == skipLog[k][1]
                      pos == skipLog[k][2]
                  IN (/\ pos < DocsToApply(f, numdoc)
                      /\ f \notin abandoned
                      /\ (idxPc # "docs" \/ scdList[fileIdx] # f))
                         => \E i \in 1..Len(applyLog) : applyLog[i] = <<f, pos + 1>>)

\* the first document of the insert file was skipped; its second document
\* and the update file after it were applied all the same
C21_Witness ==
    /\ idxPc = "move"
    /\ idxResult = "running"
    /\ skipLog = <<<<FileI, 1>>>>
    /\ applyLog = <<<<FileI, 1>>, <<FileI, 2>>, <<FileU, 1>>>>
    /\ dispatchLog = <<FileI, FileU>>
    /\ maxDocId > 0

\* C22: RecommendTaskService::buildCollection returns true exactly when the
\* build met no failure of the level of the pass (the backup of the data
\* files, the directory guard, the scan of the user and of the order bundle
\* directory); a file or record that failed does not make it return false.
C22_BuildResult ==
    /\ recBuildResult = "true" => (recBuildPc = "idle" /\ ~recLog.passFailure)
    /\ recBuildResult = "false" => (recBuildPc = "idle" /\ recLog.passFailure)
    /\ (recBuildPc = "idle" /\ recLastBackup # "none") => recBuildResult # "none"

\* a build in which a file or record failed returned true
C22_Witness ==
    /\ recBuildPc = "idle"
    /\ recBuildResult = "true"
    /\ recLog.itemFailure
    /\ ~recLog.passFailure
    /\ recLastBackup = "copied"

\* C23: with the forwarding to the log server switched on, a submission that
\* fails leaves createDocument, updateDocument and destroyDocument to return
\* the value of the write, which was made before the submission.
C23_LogFailureHarmless ==
    (lastLog.sent /\ lastLog.failed) => ~lastLog.threw

\* C24: while a build pass is between its scan and its return, no call of
\* the driver API changes the document store, the id manager or the index:
\* a step that is not a step of the pass leaves the stores as they are.
C24_BuildPassAtomic ==
    [][(idxPc \in {"dispatch", "docs", "delete", "move"} /\ UNCHANGED idxVars)
          => UNCHANGED storeVars]_vars

\* C25: once a cancellation has been requested during a build pass, at most
\* one more document is inserted, updated or deleted before the pass leaves
\* its dispatch loop.
C25_CancelWithinOneDocument ==
    sinceCancel <= 1

\* C26: visitItem with an empty session id returns false and touches no
\* store; the rec-visit counter is attempted and changed only for a call with
\* isRecItem whose visit was recorded; visitItem returns true only when none
\* of the store updates it attempted failed.
C26_VisitItem ==
    [][lastVisit'.called =>
          /\ lastVisit'.session = "" =>
                /\ ~lastVisit'.result
                /\ lastVisit'.attempted = {}
                /\ UNCHANGED <<visitStore, recVisitStore>>
          /\ ("rec" \in lastVisit'.attempted \/ recVisitStore' # recVisitStore) =>
                /\ lastVisit'.isRecItem
                /\ "visit" \in lastVisit'.attempted \ lastVisit'.failed
          /\ lastVisit'.result => lastVisit'.failed = {}
          /\ (lastVisit'.attempted # {} /\ lastVisit'.failed = {}) => lastVisit'.result]_vars

\* a visit of a recommended item was recorded in both stores and true returned
C26_Witness ==
    /\ lastVisit.called
    /\ lastVisit.result
    /\ lastVisit.isRecItem
    /\ lastVisit.attempted = {"visit", "rec"}
    /\ recVisitStore # {}
    /\ \E v \in visitStore : <<v[2], v[3]>> \notin recVisitStore

\* C27 (as stated): at its start, before the scan, a pass moves back into the
\* live bundle path every file of backup/ that the append-log of the current
\* directory lists, and no file the log does not list.
C27_RecoverListed ==
    [][(idxPc = "idle" /\ idxPc' = "scan") =>
          LET moved == backupDir \ backupDir' IN
          /\ moved \subseteq scdLog
          /\ (idxHasNext /\ faults' = faults) => (backupDir \cap scdLog) \subseteq moved]_vars

\* C27 (amended): at its start, before the scan, a pass with a next directory
\* of another name and a non-empty append-log moves back into the live
\* bundle path the files of backup/ that the log does NOT list, all of them
\* unless a rename fails, and it moves back no file the log lists; without
\* such a next directory or with an empty log it moves nothing.
C27_RecoverUnlisted ==
    [][(idxPc = "idle" /\ idxPc' = "scan") =>
          LET moved == backupDir \ backupDir' IN
          /\ scdDir' = scdDir \cup moved
          /\ moved \cap scdLog = {}
          /\ (idxHasNext /\ scdLog # {} /\ faults' = faults) => moved = backupDir \ scdLog
          /\ (~idxHasNext \/ scdLog = {}) => moved = {}
          /\ scdLog' = scdLog]_vars

\* the log lists the insert file only; the pass moved the update and the
\* delete file back and left the insert file in backup/
C27_Witness ==
    /\ idxPc = "scan"
    /\ passes = 1
    /\ scdLog = {FileI}
    /\ backupDir = {FileI}
    /\ scdDir = {FileU, FileD}

\* ---- helpers of the claims about the classification of an update ----
\* the property is indexed, filterable and not analyzed
FilterColumn(p) == Schema(p).isIndex /\ Schema(p).isFilter /\ ~Schema(p).isAnalyzed

\* the positions of the record whose property differs from the persisted value
DifferingAt(s, doc) == {i \in 2..Len(doc) : Differs(s, doc, i)}

\* every differing property is a filter column or not indexed
ChangesAllowed(s, doc) ==
    \A i \in DifferingAt(s, doc) : FilterColumn(doc[i][1]) \/ ~Schema(doc[i][1]).isIndex

\* the differing filter columns with their new values
ChangedColumns(s, doc) ==
    LET at == {i \in DifferingAt(s, doc) : FilterColumn(doc[i][1])} IN
    [p \in {doc[i][1] : i \in at} |-> doc[CHOOSE i \in at : doc[i][1] = p][2]]

\* the stored document has a value for every property of the record, and the
\* schema knows every property
AllPersisted(s, doc) ==
    \A i \in 2..Len(doc) :
        doc[i][1] \in SchemaNames /\ dmHasProperty(s, s.idMap[doc[1][2]], doc[i][1])

\* C28 (as stated): an update of a stored document is classified R-type
\* whenever every property of the record that differs from the persisted
\* value is a filter column (indexed, filterable, not analyzed) or not
\* indexed, and the recorded field values are then the differing filter
\* columns with their new values.
C28_RtypeWheneverAllowed ==
    \A doc \in SCDDocs :
        (dmStored(Store, idMap[doc[1][2]]) /\ ChangesAllowed(Store, doc)) =>
            /\ checkRtype_(Store, doc).rType
            /\ checkRtype_(Store, doc).fields = ChangedColumns(Store, doc)

\* C28 (amended): an update of a stored document that has a persisted value
\* for every property of the record is classified R-type exactly when every
\* differing property is a filter column or not indexed, and the recorded
\* field values are then the differing filter columns with their new values;
\* a record with a property the stored document has no value for is not
\* classified R-type and records no field value.
C28_RtypeWhenAllPersisted ==
    \A doc \in SCDDocs :
        dmStored(Store, idMap[doc[1][2]]) =>
            LET r == checkRtype_(Store, doc) IN
            /\ r.rType <=> (AllPersisted(Store, doc) /\ ChangesAllowed(Store, doc))
            /\ r.rType => r.fields = ChangedColumns(Store, doc)
            /\ ~r.rType => r.fields = EmptyProps
            /\ r.isUpdate => DifferingAt(Store, doc) # {}

\* a stored document has a price and no other property; a record that
\* changes its price is classified R-type with the new price recorded, and a
\* record that brings a property the document lacks is not
C28_Witness ==
    /\ dmLive(Store, idMap["A"])
    /\ DOMAIN docs[idMap["A"]].props = {"price"}
    /\ docs[idMap["A"]].props["price"] = "x"
    /\ checkRtype_(Store, <<<<"DOCID", "A">>, <<"price", "y">>>>).rType
    /\ checkRtype_(Store, <<<<"DOCID", "A">>, <<"price", "y">>>>).fields
          = [p \in {"price"} |-> "y"]
    /\ \E doc \in SCDDocs :
          /\ doc[1][2] = "A"
          /\ ~AllPersisted(Store, doc)
          /\ ChangesAllowed(Store, doc)
          /\ ~checkRtype_(Store, doc).rType
    /\ lastOp = [op |-> "update", rType |-> TRUE, ok |-> TRUE]

\* C29: an update record whose DOCID resolves to no docid is processed as an
\* insert: it is not classified R-type, the DOCID gets a fresh docid above
\* every docid in use, the document stored under it holds the properties of
\* the record and nothing else, and no stored document is changed, removed
\* or taken out of the index.
C29_UnknownUpdateIsInsert ==
    [][(/\ idxPc = "docs"
        /\ applyLog' # applyLog
        /\ checkSCDType(scdList[fileIdx]) = "UPDATE_SCD"
        /\ idMap[fileDocs[scdList[fileIdx]][docPos][1][2]] = 0
        /\ faults' = faults)
       => LET rec == fileDocs[scdList[fileIdx]][docPos]
              h == rec[1][2]
              new == idLast + 1
          IN
          /\ ~checkRtype_(Store, rec).rType
          /\ skipLog' = skipLog
          /\ new > maxDocId
          /\ idMap' = [idMap EXCEPT ![h] = new]
          /\ idLast' = new
          /\ docs' = [docs EXCEPT ![new] = [id |-> new, DOCID |-> h,
                                            props |-> docProps(rec)]]
          /\ docs[new] = NoDoc
          /\ delfilter' = delfilter
          /\ indexDocs' = indexDocs \cup {new}
          /\ maxDocId' = new]_vars

\* the only file of the pass is an update file whose DOCID was never seen;
\* its record has been stored as a new document under docid 1
C29_Witness ==
    /\ dispatchLog = <<FileU>>
    /\ applyLog = <<<<FileU, 1>>>>
    /\ skipLog = <<>>
    /\ fileDocs[FileI] = <<>>
    /\ idMap["A"] = 1
    /\ idLast = 1
    /\ docs[1] = [id |-> 1, DOCID |-> "A", props |-> [p \in {"price"} |-> "y"]]
    /\ delfilter = {}
    /\ indexDocs = {1}

\* C30: when a pass has ended and a next directory exists, the bundles of the
\* successful passes since the last backup do not add up to more than
\* 200 MiB: the pass at which the bytes first exceed 200 MiB makes a backup.
C30_BackupByBytes ==
    (idxPc = "idle" /\ idxHasNext) => bytesSinceBackup <= threshold * 1024 * 1024

\* ---- helpers of the claim about the order of a cron tick ----
IsPrefix(a, b) == Len(a) <= Len(b) /\ \A i \in 1..Len(a) : a[i] = b[i]

\* C31 (as stated): a tick that got the build mutex flushes every sub-store,
\* rebuilds the frequent item sets, rebuilds the similarity matrix only when
\* the collaborator calls it stale, and flushes the recommend matrix last.
C31_CronOrderFreqFirst ==
    \E done \in {<<"flush", "buildFreqItemsets", "stale", "buildPurchaseSimMatrix",
                    "flushRecommendMatrix">>,
                  <<"flush", "buildFreqItemsets", "notStale", "flushRecommendMatrix">>,
                  <<"flush", "stale", "buildPurchaseSimMatrix", "flushRecommendMatrix">>,
                  <<"flush", "notStale", "flushRecommendMatrix">>} :
        /\ IsPrefix(cronLog, done)
        /\ (cronPc = "idle" /\ cronLast = "ran") => cronLog = done

\* C31 (amended): a tick that got the build mutex flushes every sub-store,
\* rebuilds the similarity matrix only when the collaborator calls it stale,
\* flushes the recommend matrix, and rebuilds the frequent item sets (when
\* they are enabled) after that; it never rebuilds the similarity matrix
\* when the collaborator calls it not stale.
C31_CronOrder ==
    /\ \E done \in {<<"flush", "stale", "buildPurchaseSimMatrix",
                       "flushRecommendMatrix", "buildFreqItemsets">>,
                     <<"flush", "notStale", "flushRecommendMatrix",
                       "buildFreqItemsets">>,
                     <<"flush", "stale", "buildPurchaseSimMatrix",
                       "flushRecommendMatrix">>,
                     <<"flush", "notStale", "flushRecommendMatrix">>} :
          /\ IsPrefix(cronLog, done)
          /\ (cronPc = "idle" /\ cronLast = "ran") => cronLog = done
          /\ cronPc = "freq" => Len(cronLog) = Len(done) - 1 \/ cronLog = done
    /\ cronPc = "flush" => cronLog = <<>>
    /\ cronLog # <<>> => buildCollectionMutex_ = "cron" \/ cronPc = "idle"

\* a tick found the matrix stale, rebuilt it, flushed it and then rebuilt the
\* frequent item sets
C31_Witness ==
    /\ cronPc = "idle"
    /\ cronLast = "ran"
    /\ buildCollectionMutex_ = "free"
    /\ cronLog = <<"flush", "stale", "buildPurchaseSimMatrix", "flushRecommendMatrix",
                   "buildFreqItemsets">>

\* C32: when a pass has returned, index merging is not paused: the pauseMerge
\* made for the mining has been matched by a resumeMerge, whatever the mining
\* did.
C32_MergeResumed ==
    idxPc = "idle" => ~mergePaused

\* C33: once close() has interrupted the worker, and the task running at
\* that moment (if there is one) is one that returns or reaches an
\* interruption point, the worker thread exits and close() returns.
C33_CloseTerminates ==
    (/\ closePc = "joining"
     /\ ~(workerPc = "task" /\ taskKind[curTask] = "throws"))
        ~> (closePc = "returned")

\* ---- rebuildCollection ----
RebSources == {d \in SrcDocIds : d \notin srcDel /\ srcDocs[d] # ""}
RebLogged == {rebLog[i][1] : i \in 1..Len(rebLog)}
AlreadyLive(h) == \E t \in DocIds : t <= rebBase /\ docs[t].DOCID = h /\ t \notin delfilter
RebMissing == {d \in RebSources \ RebLogged : ~AlreadyLive(srcDocs[d])}

\* C34 (as stated): when rebuildCollection has completed, every non-deleted
\* document of the source store that carries a DOCID has been re-inserted.
C34_ReinsertsEvery == rebPc = "done" => RebSources \subseteq RebLogged

\* C34 (amended): the re-inserted documents are non-deleted source documents
\* with a DOCID, taken in ascending source-docid order, each stored and indexed
\* under a docid issued during the walk and above every earlier one; the three
\* managers are flushed exactly when the walk has run to its end; and a
\* completed walk has re-inserted every such document except those whose DOCID
\* was already live in the target store and those whose insert was refused.
C34_Rebuild ==
    /\ \A i, j \in 1..Len(rebLog) :
           i < j => rebLog[i][1] < rebLog[j][1] /\ rebLog[i][2] < rebLog[j][2]
    /\ \A i \in 1..Len(rebLog) :
           /\ rebLog[i][1] \in RebSources
           /\ rebLog[i][2] > rebBase
           /\ rebLog[i][2] \in indexDocs
           /\ docs[rebLog[i][2]].DOCID = srcDocs[rebLog[i][1]]
           /\ idMap[srcDocs[rebLog[i][1]]] = rebLog[i][2]
    /\ rebPc \in {"done", "threw"} <=>
           rebFlushed = {"documentManager", "idManager", "indexManager"}
    /\ rebPc \in {"idle", "walk", "interrupted"} <=> rebFlushed = {}
    /\ rebPc = "done" => Cardinality(RebMissing) <= faults

C34_Witness ==
    /\ rebPc = "done"
    /\ srcDel = {1} /\ srcDocs[1] # ""
    /\ rebLog = <<<<2, 1>>, <<3, 2>>>>
    /\ rebFlushed = {"documentManager", "idManager", "indexManager"}

\* C35: an update that fails (in the preparation of the document, at the hook
\* or at the document store) leaves the persistent state as it was: every
\* DOCID that resolved to a live document still resolves to the same docid,
\* and that document is still stored, unchanged and not deleted.
C35_FailedUpdateKeepsState ==
    [][(lastOp'.op = "update" /\ ~lastOp'.ok)
       => \A h \in Hashes :
              (idMap[h] # 0 /\ dmLive(Store, idMap[h]))
              => /\ idMap'[h] = idMap[h]
                 /\ docs'[idMap[h]] = docs[idMap[h]]
                 /\ idMap[h] \notin delfilter']_vars

\* C36: all item records of one (user, order-id) pair of an order file reach
\* the stores in a single saveOrder_ call, however the records are arranged
\* in the file: no pair with an order id is saved twice.
C36_PairSavedAsOneOrder ==
    \A u \in Users, o \in OrderIds \ {""} :
        Cardinality({i \in 1..Len(savedOrders) :
                        savedOrders[i].user = u /\ savedOrders[i].order = o}) <= 1

\* C37: after any sequence of insert, update and delete operations every
\* docid the index holds is stored and not deleted in the document store.
C37_IndexWithinDocumentStore == \A d \in indexDocs : dmLive(Store, d)

\* the dispatch loop of the pass took the file and went through it: the file
\* was not given up as unreadable, and every document the pass had to take of
\* an insert or update file was handed to the insert or update path
FullyDispatched(f) ==
    /\ passDispatch[f] = 1
    /\ f \notin abandoned
    /\ checkSCDType(f) # "DELETE_SCD" => AppliedOf(f) = DocsToApply(f, numdoc)

\* C38: a file name is appended to the append-log of the current directory
\* only by the move step of a pass that completed dispatch, flush and mining,
\* and only when the rename into backup/ succeeded: the file is then in
\* backup/ and gone from the live bundle path, it was fully dispatched by the
\* pass, and a failed rename appends nothing.
C38_LoggedMeansProcessedAndMoved ==
    [][/\ \A f \in scdLog' \ scdLog :
              /\ idxPc = "move"
              /\ f \in backupDir' /\ f \notin scdDir'
              /\ f \notin renameFailed'
              /\ FullyDispatched(f)
       /\ renameFailed' # renameFailed => scdLog' = scdLog]_vars

\* the record at the iterator of the update file names a live document and
\* every property it supplies equals the value stored for that document
EqualRecordAtIterator ==
    /\ idxPc = "docs"
    /\ checkSCDType(scdList[fileIdx]) = "UPDATE_SCD"
    /\ docPos <= Len(fileDocs[scdList[fileIdx]])
    /\ LET rec == fileDocs[scdList[fileIdx]][docPos]
           d == idMap[rec[1][2]]
       IN /\ d # 0
          /\ dmLive(Store, d)
          /\ \A i \in 2..Len(rec) :
                 /\ dmHasProperty(Store, d, rec[i][1])
                 /\ docs[d].props[rec[i][1]] = rec[i][2]

\* C39: an update record for an existing document in which every supplied
\* property equals the persisted value changes nothing: no docid is issued or
\* retired, the document store and the index are not written, and the
\* updated-documents counter stays as it is.
C39_EqualUpdateChangesNothing ==
    [][(EqualRecordAtIterator /\ applyLog' # applyLog)
       => /\ UNCHANGED storeVars
          /\ numUpdatedDocs_' = numUpdatedDocs_
          /\ skipLog' = Append(skipLog, <<scdList[fileIdx], docPos>>)]_vars

\* the rename of the update file failed after the first pass had applied it,
\* and the second pass took the file again: the record now equals the stored
\* values and was skipped
C39_Witness ==
    /\ passes = 2
    /\ renameFailed = {} /\ faults = 1
    /\ idxPc = "docs"
    /\ dispatchLog = <<FileU>>
    /\ applyLog = <<<<FileU, 1>>>>
    /\ skipLog = <<<<FileU, 1>>>>
    /\ numUpdatedDocs_ = 0
    /\ idMap["A"] = 1 /\ dmLive(Store, 1)
    /\ dmHasProperty(Store, 1, "price") /\ docs[1].props["price"] = "y"
    /\ fileDocs[FileU][1] = <<<<"DOCID", "A">>, <<"price", "y">>>>

\* C40: when the loop over the documents of a file returns to the dispatch
\* loop, an insert file has handed min(numdoc, length) of its documents to the
\* insert path if numdoc > 0, and every other file (an update file, or any
\* file when numdoc = 0) all of them; and when a delete file is through and
\* no collaborator failed, no DOCID it names is live any more, whatever
\* numdoc is.
C40_NumdocLimitsInsertFilesOnly ==
    [][/\ (idxPc = "docs" /\ idxPc' = "dispatch" /\ abandoned' = abandoned)
          => LET f == scdList[fileIdx]
                 len == Len(fileDocs[f])
             IN IF checkSCDType(f) = "INSERT_SCD" /\ numdoc > 0
                THEN AppliedOf(f) = IF numdoc < len THEN numdoc ELSE len
                ELSE AppliedOf(f) = len
       /\ (idxPc = "delete" /\ idxPc' = "dispatch" /\ faults = 0)
          => \A i \in 1..Len(fileDocs[scdList[fileIdx]]) :
                 LET d == idMap[fileDocs[scdList[fileIdx]][i][1][2]]
                 IN d # 0 => ~dmLive(Store, d)]_vars

\* a pass with numdoc = 1 took one of the two documents of the insert file,
\* both records of the update file and the whole delete file
C40_Witness ==
    /\ numdoc = 1
    /\ idxPc = "move"
    /\ Len(fileDocs[FileI]) = 2
    /\ applyLog = <<<<FileI, 1>>, <<FileU, 1>>, <<FileU, 2>>>>
    /\ skipLog = <<>>
    /\ removeLog = <<2>>
    /\ idMap["B"] = 0

=============================================================================
